---- MODULE Spec2Model ----
(***************************************************************************)
(* Trading engine of ishac42/trading-bot: BotRunner cycles, the broker,    *)
(* the PositionReconciler and the close_position request, as one state     *)
(* machine.  Every action is one stretch of code between two suspension    *)
(* points (await) of a coroutine; the store is the Trade and Position      *)
(* tables.  Money is counted in ticks of 1/10000 dollar.                   *)
(***************************************************************************)
EXTENDS Integers, Sequences, FiniteSets, TLC

\* ------------------------------------------------------------------------
\* Bounds
\* ------------------------------------------------------------------------
MaxOrders == 2
MaxAttempts == 2

\* ------------------------------------------------------------------------
\* Instance: one user, one bot, its symbols, indicators and risk settings
\* ------------------------------------------------------------------------
None == 0 - 1
Bots == {"b1", "b2"}
Runners == {"r1", "r2"}
NoRunner == "none"
SymbolList == <<"AAPL">>
Symbols == {SymbolList[i] : i \in 1..Len(SymbolList)}
IndicatorList == <<"RSI", "SMA">>
Indicators == {IndicatorList[i] : i \in 1..Len(IndicatorList)}
Signals == {"buy", "sell", "hold"}
PriceA == 10 * 10000
PriceB == 11 * 10000 + 30
Prices == {PriceA, PriceB}
MAX_ERROR_COUNT == 5
\* ET_OFFSET, in minutes
ET_OFFSET == -(5 * 60)
\* the minutes of the day (UTC) the clock is read at
TimesOfDay == {14 * 60 + 29, 16 * 60 + 30, 17 * 60}
BotConfig == [capital |-> 25 * 10000,
              start_hour |-> 9, start_minute |-> 30,
              end_hour |-> 12, end_minute |-> 0,
              risk_management |-> [max_position_size |-> 100,
                                   stop_loss |-> 5,
                                   take_profit |-> 5,
                                   max_daily_loss |-> 0,
                                   max_concurrent_positions |-> 0]]

\* the first eight hexadecimal digits of a random UUID
ShortUuids == {"1f0c9a3e", "b7d2446a"}

\* the status of a Bot row that was deleted
Deleted == "deleted"

NonTerminal == {"new", "accepted", "partially_filled"}
NonFill == {"canceled", "rejected", "expired"}

\* ------------------------------------------------------------------------
\* State
\* ------------------------------------------------------------------------
\* a bot with little capital, for which one share may take up to twice the
\* capital, with a daily loss limit and one position at most
TightConfig ==
  [BotConfig EXCEPT !.capital = 10 * 10000 + 5000,
                    !.risk_management =
                       [max_position_size |-> 200, stop_loss |-> 5, take_profit |-> 5,
                        max_daily_loss |-> 5, max_concurrent_positions |-> 1]]

\* the config register_bot hands to the BotRunner: the columns of the Bot row
ConfigOf(b) == IF b = "b1" THEN BotConfig ELSE TightConfig

VARIABLES
  positions,   \* Position table, in insertion (opened_at) order
  trades,      \* Trade table, in insertion order
  orders,      \* the broker's orders; an order id is its index
  bots,        \* TradingEngine.bots: bot id -> BotRunner or NoRunner
  regs,        \* register_bot calls suspended between the check and the insert
  botStatus,   \* Bot.status
  runner,      \* BotRunner objects: task position and locals
  rec,         \* the Reconciler's pass: position and locals
  cp,          \* the close_position request: position and locals
  events,      \* what the last step published on the Event Bus, in order
  botRow,      \* Bot.is_active, Bot.error_count, Bot.last_run_at
  engine,      \* TradingEngine: flags, task handles, start() and stop() in progress
  clock,       \* the wall clock: UTC minute of the day, daylight saving in force
  logged,      \* what the last step logged: the handler of a BotRunner, of
               \* register_bot or the guard of start() that wrote the line
  risk,        \* the last call of RiskManager.validate by itself: its arguments
               \* and the RiskCheckResult
  short_uuid,  \* str(uuid.uuid4())[:8] as the next call computes it
  macd,        \* the last call of SignalGenerator._eval_macd
  sold_in_cycle,  \* history: per BotRunner, the symbols the stop-loss and
               \* take-profit check of the cycle in progress has sold
  response     \* what the last step answered to an HTTP request: "" (nothing
               \* yet, or no request), "success" or the error code

vars == <<positions, trades, orders, bots, regs, botStatus, runner, rec, cp, events,
          botRow, engine, clock, logged, risk, short_uuid, response, macd, sold_in_cycle>>

\* ------------------------------------------------------------------------
\* Arithmetic
\* ------------------------------------------------------------------------
\* round(n/d) to the nearest integer, ties to the even one (Python round)
RoundHalfEven(n, d) ==
  LET q == n \div d
      r == n % d
  IN  IF 2 * r < d THEN q
      ELSE IF 2 * r > d THEN q + 1
      ELSE IF q % 2 = 0 THEN q ELSE q + 1

\* round(x, 2) of an amount in ticks: nearest multiple of 100 ticks
Round2(x) == RoundHalfEven(x, 100) * 100

Truthy(x) == x # None /\ x # 0

\* ------------------------------------------------------------------------
\* Python floats (IEEE 754 binary64, round to nearest, ties to even)
\* ------------------------------------------------------------------------
\* A natural number is a sequence of limbs, least significant first, without
\* leading zero limbs; a float x >= 0 is [m |-> natural, e |-> integer], of
\* value m * 2^e, m of at most MantissaBits + 1 bits.
LimbBits == 13
Limb == 8192
MantissaBits == 53
\* the binary digits computed of a quotient before it is rounded
QuotientBits == 120

RECURSIVE Pow2(_)
Pow2(k) == IF k = 0 THEN 1 ELSE 2 * Pow2(k - 1)

RECURSIVE Norm(_)
Norm(a) == IF a # <<>> /\ a[Len(a)] = 0 THEN Norm(SubSeq(a, 1, Len(a) - 1)) ELSE a

RECURSIVE LimbsOfNat(_)
LimbsOfNat(n) == IF n = 0 THEN <<>> ELSE <<n % Limb>> \o LimbsOfNat(n \div Limb)

RECURSIVE NatOfLimbs(_)
NatOfLimbs(a) == IF a = <<>> THEN 0 ELSE Head(a) + Limb * NatOfLimbs(Tail(a))

\* a * c + carry, for a small c
RECURSIVE MulSmallC(_, _, _)
MulSmallC(a, c, carry) ==
  IF a = <<>> THEN LimbsOfNat(carry)
  ELSE LET v == Head(a) * c + carry
       IN  <<v % Limb>> \o MulSmallC(Tail(a), c, v \div Limb)

MulSmall(a, c) == Norm(MulSmallC(a, c, 0))

\* a + b
RECURSIVE AddC(_, _, _)
AddC(a, b, carry) ==
  IF a = <<>> /\ b = <<>> THEN LimbsOfNat(carry)
  ELSE LET x == IF a = <<>> THEN 0 ELSE Head(a)
           y == IF b = <<>> THEN 0 ELSE Head(b)
           v == x + y + carry
       IN  <<v % Limb>> \o AddC(IF a = <<>> THEN a ELSE Tail(a),
                                IF b = <<>> THEN b ELSE Tail(b), v \div Limb)

Add(a, b) == Norm(AddC(a, b, 0))

\* a - b, for a >= b
RECURSIVE SubB(_, _, _)
SubB(a, b, borrow) ==
  IF a = <<>> THEN <<>>
  ELSE LET y == IF b = <<>> THEN 0 ELSE Head(b)
           v == Head(a) - y - borrow
       IN  <<IF v < 0 THEN v + Limb ELSE v>>
             \o SubB(Tail(a), IF b = <<>> THEN b ELSE Tail(b), IF v < 0 THEN 1 ELSE 0)

Sub(a, b) == Norm(SubB(a, b, 0))

\* -1, 0, 1 as a < b, a = b, a > b
RECURSIVE CmpFrom(_, _, _)
CmpFrom(a, b, i) ==
  IF i = 0 THEN 0
  ELSE IF a[i] < b[i] THEN -1
  ELSE IF a[i] > b[i] THEN 1
  ELSE CmpFrom(a, b, i - 1)

Cmp(a, b) ==
  IF Len(a) < Len(b) THEN -1
  ELSE IF Len(a) > Len(b) THEN 1
  ELSE CmpFrom(a, b, Len(a))

\* a * b
RECURSIVE MulAcc(_, _, _)
MulAcc(a, b, k) ==
  IF k > Len(b) THEN <<>>
  ELSE Add([i \in 1..(k - 1) |-> 0] \o MulSmall(a, b[k]), MulAcc(a, b, k + 1))

Mul(a, b) == MulAcc(a, b, 1)

\* a * 2^k and floor(a / 2^k)
Shl(a, k) ==
  IF a = <<>> THEN a
  ELSE [i \in 1..(k \div LimbBits) |-> 0] \o MulSmall(a, Pow2(k % LimbBits))

RECURSIVE DivSmallFrom(_, _, _, _)
DivSmallFrom(a, d, i, rem) ==
  IF i = 0 THEN <<>>
  ELSE LET v == rem * Limb + a[i]
       IN  DivSmallFrom(a, d, i - 1, v % d) \o <<v \div d>>

ShrLimbs(rest, k) == Norm(DivSmallFrom(rest, Pow2(k), Len(rest), 0))

Shr(a, k) ==
  ShrLimbs(IF k \div LimbBits >= Len(a) THEN <<>>
           ELSE SubSeq(a, k \div LimbBits + 1, Len(a)), k % LimbBits)

RECURSIVE BitLenSmall(_)
BitLenSmall(n) == IF n = 0 THEN 0 ELSE 1 + BitLenSmall(n \div 2)

BitLen(a) == IF a = <<>> THEN 0 ELSE (Len(a) - 1) * LimbBits + BitLenSmall(a[Len(a)])

\* bit i (from 0) of a
Bit(a, i) == (a[i \div LimbBits + 1] \div Pow2(i % LimbBits)) % 2

\* 2 * a + bit
Double(a, bit) == Norm(AddC(MulSmall(a, 2), <<>>, bit))

\* one step of the long division by b: r2 is the remainder so far with the
\* next bit of the dividend appended
BitStep(b, q, r2) ==
  IF Cmp(r2, b) >= 0 THEN [q |-> Double(q, 1), r |-> Sub(r2, b)]
  ELSE [q |-> Double(q, 0), r |-> r2]

\* floor(a / b) and a mod b, b > 0: long division, one bit of a at a time,
\* limb by limb; d is [q, r] so far
RECURSIVE DivModBits(_, _, _, _, _)
DivModBits(a, b, i, n, d) ==
  IF n = 0 \/ Len(d.q) + Len(d.r) < 0 THEN d
  ELSE DivModBits(a, b, i - 1, n - 1, BitStep(b, d.q, Double(d.r, Bit(a, i))))

RECURSIVE DivModLimbs(_, _, _, _)
DivModLimbs(a, b, k, d) ==
  IF k = 0 \/ Len(d.q) + Len(d.r) < 0 THEN d
  ELSE DivModLimbs(a, b, k - 1, DivModBits(a, b, k * LimbBits - 1, LimbBits, d))

DivMod(a, b) == DivModLimbs(a, b, Len(a), [q |-> <<>>, r |-> <<>>])

\* q * 2^e rounded up or not: half is -1, 0, 1 as the bits dropped after q are
\* below, at or above one half
RoundHalf(q, sticky, e, half) ==
  [m |-> IF half > 0 \/ (half = 0 /\ (sticky \/ q[1] % 2 = 1)) THEN Add(q, <<1>>) ELSE q,
   e |-> e]

RoundQuot(a, sticky, e, drop, q) ==
  RoundHalf(q, sticky, e, Cmp(Sub(a, Shl(q, drop)), Shl(<<1>>, drop - 1)))

RoundDrop(a, sticky, e, drop) ==
  IF drop <= 0 THEN [m |-> a, e |-> e]
  ELSE RoundQuot(a, sticky, e + drop, drop, Shr(a, drop))

\* the float nearest to a * 2^e (to a * 2^e plus a little, when sticky)
Round(a, sticky, e) == RoundDrop(a, sticky, e, BitLen(a) - MantissaBits)

\* x * y, x / y
FloatMul(x, y) == Round(Mul(x.m, y.m), FALSE, x.e + y.e)

FloatOfQuot(d, e) == Round(d.q, d.r # <<>>, e)

FloatDiv(x, y) ==
  FloatOfQuot(DivMod(Shl(x.m, QuotientBits), y.m), x.e - y.e - QuotientBits)

\* the float of the decimal n / d (a literal, a JSON number, round(x, 4))
FloatOf(n, d) == FloatDiv([m |-> LimbsOfNat(n), e |-> 0], [m |-> LimbsOfNat(d), e |-> 0])

\* -1, 0, 1 as x < y, x = y, x > y
FloatCmpAt(x, y, e) == Cmp(Shl(x.m, x.e - e), Shl(y.m, y.e - e))

FloatCmp(x, y) == FloatCmpAt(x, y, IF x.e < y.e THEN x.e ELSE y.e)

\* int(x)
FloatInt(x) == NatOfLimbs(IF x.e >= 0 THEN Shl(x.m, x.e) ELSE Shr(x.m, 0 - x.e))

\* ticks in a dollar
Tick == 10000

\* the float of an amount of ticks, in dollars
Dollars(x) == FloatOf(x, Tick)

\* capital * (pct / 100), as RiskManager computes max_allocation, allocation
\* and max_loss
PercentOf(capital, pct) ==
  FloatMul(Dollars(capital), FloatDiv(FloatOf(pct, 1), FloatOf(100, 1)))

\* RiskManager.calculate_position_size.  Amounts are whole ticks and pct a
\* whole number, so when allocation / current_price is not a whole number it
\* is further from one than the floats' error and int() truncates it as the
\* exact quotient is truncated; when it is whole the float quotient decides.
calculate_position_size(capital, current_price, risk_config) ==
  IF current_price <= 0 \/ capital <= 0 THEN 0
  ELSE IF (capital * risk_config.max_position_size) % (100 * current_price) # 0
  THEN (capital * risk_config.max_position_size) \div (100 * current_price)
  ELSE FloatInt(FloatDiv(PercentOf(capital, risk_config.max_position_size),
                         Dollars(current_price)))

\* RiskManager.calculate_stop_loss
calculate_stop_loss(entry_price, risk_config) ==
  IF risk_config.stop_loss > 0
  THEN RoundHalfEven(entry_price * (100 - risk_config.stop_loss), 10000) * 100
  ELSE None

\* RiskManager.calculate_take_profit
calculate_take_profit(entry_price, risk_config) ==
  IF risk_config.take_profit > 0
  THEN RoundHalfEven(entry_price * (100 + risk_config.take_profit), 10000) * 100
  ELSE None

RECURSIVE SumSeq(_, _)
SumSeq(f, n) == IF n = 0 THEN 0 ELSE f[n] + SumSeq(f, n - 1)

\* TradingEngine.get_bot_today_pnl
get_bot_today_pnl(b) ==
  SumSeq([i \in 1..Len(trades) |->
            IF trades[i].bot_id = b /\ trades[i].profit_loss # None
            THEN trades[i].profit_loss ELSE 0], Len(trades))

\* x > capital * (pct / 100), for an amount x >= 0: the floats are compared
\* when the two are equal as exact numbers, the exact numbers when they
\* differ (by a millionth of a dollar at least, far more than the floats'
\* error)
ExceedsPercent(x, capital, pct) ==
  IF x * 100 # capital * pct THEN x * 100 > capital * pct
  ELSE FloatCmp(Dollars(x), PercentOf(capital, pct)) > 0

\* RiskManager._check_capital_available
check_capital_available(capital, current_price, risk_config) ==
  IF capital <= 0 THEN "no_capital"
  ELSE IF current_price <= 0 THEN "invalid_price"
  ELSE IF current_price > capital THEN "price_exceeds_capital"
  ELSE ""

\* RiskManager._check_position_size
check_position_size(capital, current_price, risk_config) ==
  IF ExceedsPercent(current_price, capital, risk_config.max_position_size)
  THEN "single_share_exceeds_position_limit"
  ELSE ""

\* RiskManager._check_daily_loss_limit
check_daily_loss_limit(today_pnl, capital, risk_config) ==
  IF risk_config.max_daily_loss <= 0 \/ capital <= 0 THEN ""
  ELSE IF today_pnl < 0 /\ ExceedsPercent(0 - today_pnl, capital, risk_config.max_daily_loss)
  THEN "daily_loss_limit_exceeded"
  ELSE ""

\* RiskManager._check_max_positions (None is configured as 0)
check_max_positions(open_count, risk_config) ==
  IF risk_config.max_concurrent_positions <= 0 THEN ""
  ELSE IF open_count >= risk_config.max_concurrent_positions
  THEN "max_concurrent_positions_reached"
  ELSE ""

\* the first reason that is not "", in the order of the checks
FirstFailure(checks) ==
  IF \A k \in 1..Len(checks) : checks[k] = "" THEN ""
  ELSE checks[CHOOSE k \in 1..Len(checks) :
                /\ checks[k] # ""
                /\ \A j \in 1..(k - 1) : checks[j] = ""]

\* RiskManager.validate for a BUY signal: the reason of the first check that
\* fails, "" when the trade is allowed
validate_reason(bot_config, current_price, today_pnl, open_position_count) ==
  FirstFailure(<<check_capital_available(bot_config.capital, current_price,
                                         bot_config.risk_management),
                 check_position_size(bot_config.capital, current_price,
                                     bot_config.risk_management),
                 check_daily_loss_limit(today_pnl, bot_config.capital,
                                        bot_config.risk_management),
                 check_max_positions(open_position_count, bot_config.risk_management)>>)

\* a Risk Manager that refuses nothing
AlwaysAllowed(bot_config, current_price, today_pnl, open_position_count) == TRUE

\* allowed, of RiskManager.validate
validate(bot_config, current_price, today_pnl, open_position_count) ==
  validate_reason(bot_config, current_price, today_pnl, open_position_count) = ""

\* ------------------------------------------------------------------------
\* Store queries
\* ------------------------------------------------------------------------
OpenIds(b, s) ==
  {i \in 1..Len(positions) :
     positions[i].bot_id = b /\ positions[i].symbol = s /\ positions[i].is_open}

OpenIdsOfBot(b) ==
  {i \in 1..Len(positions) : positions[i].bot_id = b /\ positions[i].is_open}

RECURSIVE SetToSeq(_)
SetToSeq(S) ==
  IF S = {} THEN <<>>
  ELSE LET m == CHOOSE x \in S : \A y \in S : x <= y
       IN  <<m>> \o SetToSeq(S \ {m})

\* Position rows as the ORM hands them out: (id, loaded attribute values)
Loaded(i) == [id |-> i, row |-> positions[i]]

\* ------------------------------------------------------------------------
\* Broker
\* ------------------------------------------------------------------------
\* shares of s the account holds: filled buys minus filled sells
BrokerQty(s) ==
  SumSeq([i \in 1..Len(orders) |->
            IF orders[i].symbol = s /\ orders[i].filled_qty > 0
            THEN (IF orders[i].side = "buy" THEN orders[i].filled_qty
                  ELSE -orders[i].filled_qty)
            ELSE 0], Len(orders))

\* generate_client_order_id: f"bot-{bot_id[:8]}-{short_uuid}", as its parts
generate_client_order_id(bot_id) == <<"bot", bot_id, short_uuid>>

\* the bot a client_order_id names
BotOfOrder(client_order_id) == client_order_id[2]

\* submit_market_order: the order as the broker accepts it
NewOrder(b, s, side, qty) ==
  [client_order_id |-> generate_client_order_id(b), symbol |-> s, side |-> side, qty |-> qty,
   status |-> "accepted", filled_qty |-> 0, filled_avg_price |-> None]

\* AlpacaClient._order_to_dict, the fields the engine reads
order_to_dict(o) ==
  [id |-> o, status |-> orders[o].status,
   filled_qty |-> orders[o].filled_qty,
   filled_avg_price |-> orders[o].filled_avg_price]

\* ------------------------------------------------------------------------
\* Records
\* ------------------------------------------------------------------------
NoStatus == [id |-> 0, status |-> "", filled_qty |-> 0, filled_avg_price |-> None]
NoPos == [id |-> 0]

FreshRunner ==
  [pc |-> "none", is_running |-> FALSE, is_paused |-> FALSE, bot_id |-> "",
   consecutive_errors |-> 0,
   snap |-> <<>>, symidx |-> 0, ret |-> "", order |-> 0, trade_id |-> 0,
   position_id |-> 0, attempt |-> 0, ostatus |-> NoStatus, pos |-> NoPos,
   price |-> 0, qty |-> 0, ind |-> "", reason |-> <<>>]

ClearLocals(rr) ==
  [rr EXCEPT !.order = 0, !.trade_id = 0, !.position_id = 0, !.attempt = 0,
             !.ostatus = NoStatus, !.pos = NoPos, !.price = 0, !.qty = 0,
             !.ind = "", !.reason = <<>>]

\* where the task goes when _execute_buy/_execute_sell/_process_symbol returns:
\* back into the stop-loss loop, on to the next symbol, or to the end of the
\* cycle (_update_last_run, then the sleep of the next cycle)
Return(rr) ==
  LET c == ClearLocals(rr)
  IN  IF rr.ret = "sltp" THEN [c EXCEPT !.pc = "sltp", !.ret = ""]
      ELSE IF rr.symidx < Len(SymbolList)
           THEN [c EXCEPT !.pc = "proc", !.symidx = rr.symidx + 1, !.ret = ""]
           ELSE [c EXCEPT !.pc = "sleep", !.symidx = 0, !.ret = "", !.snap = <<>>,
                          !.consecutive_errors = 0]

\* _update_last_run, when the step that leaves the runner as nr ended a cycle
update_last_run(nr) ==
  IF nr.pc = "sleep"
  THEN [botRow EXCEPT ![nr.bot_id].last_run_at = clock.utc]
  ELSE botRow

\* WebSocketManager: the emit_* methods the class defines
WsManagerEvents ==
  {"trade_executed", "position_updated", "bot_status_changed", "price_update",
   "market_status_changed"}

\* ws_manager.emit_<name>(payload); a name the class lacks raises AttributeError
\* in the caller, whose handler logs it
Emit(ev, name, payload) ==
  IF name \in WsManagerEvents THEN Append(ev, [name |-> name, payload |-> payload])
  ELSE ev

\* TradingEngine.__init__; start_pc and stop_pc are the positions of the
\* start() and stop() calls in progress, load the running bots start() has
\* still to register, awaiting the bot whose register_bot it awaits, stopping
\* the bots stop() has still to unregister; monitor and reconciler count the
\* live market-monitor and reconciler tasks, previous_is_open is the local of
\* _market_monitor_loop, emitted the last market_status_changed the monitor
\* of this start() has sent
NewEngine ==
  [running |-> FALSE, market_is_open |-> FALSE, start_pc |-> "none",
   stop_pc |-> "none", load |-> {}, awaiting |-> "", stopping |-> {},
   monitor |-> 0, reconciler |-> 0, previous_is_open |-> FALSE,
   emitted |-> "none"]

\* RiskManager.validate was not called
NoCall == [called |-> FALSE]

\* the Reconciler between passes
IdleRec == [pc |-> "idle", queue |-> <<>>, alpaca |-> <<>>, db |-> <<>>]

\* ------------------------------------------------------------------------
\* Init
\* ------------------------------------------------------------------------
InitStore ==
  /\ positions = <<>>
  /\ trades = <<>>
  /\ orders = <<>>
  /\ bots = [b \in Bots |-> NoRunner]
  /\ regs = [b \in Bots |-> 0]
  /\ botStatus = [b \in Bots |-> "stopped"]
  /\ runner = [r \in Runners |-> FreshRunner]
  /\ rec = IdleRec
  /\ cp = [pc |-> "idle", pos |-> NoPos, order |-> 0, pause_bot |-> FALSE]
  /\ events = <<>>
  /\ botRow = [b \in Bots |-> [is_active |-> FALSE, error_count |-> 0,
                              last_run_at |-> None]]
  /\ clock = [utc |-> 16 * 60 + 30, dst |-> FALSE]
  /\ logged = ""
  /\ risk = NoCall
  /\ short_uuid = CHOOSE u \in ShortUuids : TRUE
  /\ macd = NoCall
  /\ sold_in_cycle = [r \in Runners |-> {}]
  /\ response = ""

\* a new store and a new engine
Init == InitStore /\ engine = NewEngine

\* ------------------------------------------------------------------------
\* Lifecycle: start_bot/stop_bot/pause_bot/resume_bot and the registry
\* ------------------------------------------------------------------------
FreeRunners == {r \in Runners : runner[r].pc = "none"}

\* a delete request meets no obstacle
NothingBlocksDelete(status) == FALSE

\* delete_bot: the status that forbids the deletion
BlocksDelete(status) == status = "running"

\* a row removed by the cascade of a delete: it keeps its place, so that the
\* ids of the other rows stay what they are, and belongs to no bot
DeletedPosition(p) == [p EXCEPT !.bot_id = "", !.is_open = FALSE, !.closed_at = TRUE]
DeletedTrade(t) == [t EXCEPT !.bot_id = "", !.status = Deleted]

\* delete_bot
DeleteBot(b) ==
  /\ IF botStatus[b] = Deleted
     THEN /\ response' = "NOT_FOUND"
          /\ UNCHANGED <<botStatus, trades, positions>>
     ELSE IF BlocksDelete(botStatus[b])
     THEN /\ response' = "BOT_RUNNING"
          /\ UNCHANGED <<botStatus, trades, positions>>
     ELSE /\ response' = "success"
          /\ botStatus' = [botStatus EXCEPT ![b] = Deleted]
          /\ trades' = [i \in 1..Len(trades) |->
                          IF trades[i].bot_id = b THEN DeletedTrade(trades[i])
                          ELSE trades[i]]
          /\ positions' = [i \in 1..Len(positions) |->
                             IF positions[i].bot_id = b THEN DeletedPosition(positions[i])
                             ELSE positions[i]]
  /\ events' = <<>>
  /\ logged' = ""
  /\ UNCHANGED <<orders, bots, regs, runner, rec, cp, botRow, engine, clock, risk,
                 short_uuid, macd, sold_in_cycle>>

\* start_bot up to the first suspension inside register_bot
StartBot(b) ==
  /\ botStatus' = [botStatus EXCEPT ![b] = "running"]
  /\ IF bots[b] # NoRunner
     THEN regs' = regs
     ELSE /\ regs[b] < Cardinality(FreeRunners)
          /\ regs' = [regs EXCEPT ![b] = @ + 1]
  /\ botRow' = [botRow EXCEPT ![b].is_active = TRUE, ![b].error_count = 0]
  /\ events' = Emit(<<>>, "bot_status_changed", [id |-> b, status |-> "running"])
  /\ UNCHANGED <<positions, trades, orders, bots, runner, rec, cp>>
  /\ logged' = ""
  /\ response' = ""
  /\ UNCHANGED <<risk, short_uuid, macd, sold_in_cycle>>
  /\ UNCHANGED <<engine, clock>>

\* get_alpaca_client(user_id): the user's own client, else the default one.
\* The default client is configured (the lifespan loaded the credentials),
\* so every owner has a client.
get_alpaca_client(b) == TRUE

\* register_bot after the Bot row was read (not found: the call returns):
\* construct, insert, start
RegisterInsert(b) ==
  /\ regs[b] > 0
  /\ FreeRunners # {}
  /\ IF botStatus[b] # Deleted /\ get_alpaca_client(b)
     THEN LET r == CHOOSE q \in FreeRunners : TRUE IN
            /\ bots' = [bots EXCEPT ![b] = r]
            /\ runner' = [runner EXCEPT ![r] =
                            [FreshRunner EXCEPT !.pc = "sleep", !.is_running = TRUE,
                                                !.bot_id = b]]
     ELSE UNCHANGED <<bots, runner>>
  /\ regs' = [regs EXCEPT ![b] = @ - 1]
  /\ events' = <<>>
  /\ UNCHANGED <<positions, trades, orders, botStatus, rec, cp>>
  /\ logged' = ""
  /\ response' = ""
  /\ UNCHANGED <<risk, short_uuid, macd, sold_in_cycle>>
  /\ UNCHANGED <<botRow, engine, clock>>

\* a register_bot without handler: the exception ends _load_running_bots
AbortLoad(e, b) == IF e.awaiting = b THEN [e EXCEPT !.load = {}] ELSE e

\* what a failure inside register_bot does to the engine that awaits the
\* call: the handler of register_bot has caught it, the caller sees a return
AfterRegisterFailure(e, b) == e

\* register_bot: reading the Bot row raises; the handler logs it and the call
\* returns
RegisterFails(b) ==
  /\ regs[b] > 0
  /\ regs' = [regs EXCEPT ![b] = @ - 1]
  /\ engine' = AfterRegisterFailure(engine, b)
  /\ events' = <<>>
  /\ logged' = "register_bot"
  /\ response' = ""
  /\ UNCHANGED <<risk, short_uuid, macd, sold_in_cycle>>
  /\ UNCHANGED <<positions, trades, orders, bots, botStatus, runner, rec, cp,
                 botRow, clock>>

\* stop_bot: unregister_bot pops the runner, BotRunner.stop cancels its task
StopBot(b) ==
  /\ botStatus[b] # "stopped" \/ bots[b] # NoRunner
  /\ botStatus' = [botStatus EXCEPT ![b] = "stopped"]
  /\ bots' = [bots EXCEPT ![b] = NoRunner]
  /\ runner' = IF bots[b] = NoRunner THEN runner
               ELSE [runner EXCEPT ![bots[b]] = FreshRunner]
  /\ botRow' = [botRow EXCEPT ![b].is_active = FALSE]
  /\ events' = Emit(<<>>, "bot_status_changed", [id |-> b, status |-> "stopped"])
  /\ UNCHANGED <<positions, trades, orders, regs, rec, cp>>
  /\ logged' = ""
  /\ response' = ""
  /\ UNCHANGED <<risk, short_uuid, macd, sold_in_cycle>>
  /\ UNCHANGED <<engine, clock>>

\* pause_bot
PauseBot(b) ==
  /\ botStatus' = [botStatus EXCEPT ![b] = "paused"]
  /\ runner' = IF bots[b] = NoRunner THEN runner
               ELSE [runner EXCEPT ![bots[b]].is_paused = TRUE]
  /\ events' = Emit(<<>>, "bot_status_changed", [id |-> b, status |-> "paused"])
  /\ logged' = ""
  /\ response' = ""
  /\ UNCHANGED <<risk, short_uuid, macd, sold_in_cycle>>
  /\ UNCHANGED <<positions, trades, orders, bots, regs, rec, cp,
                 botRow, engine, clock>>

\* resume_bot
ResumeBot(b) ==
  /\ botStatus[b] = "paused"
  /\ botStatus' = [botStatus EXCEPT ![b] = "running"]
  /\ runner' = IF bots[b] = NoRunner THEN runner
               ELSE [runner EXCEPT ![bots[b]].is_paused = FALSE]
  /\ events' = Emit(<<>>, "bot_status_changed", [id |-> b, status |-> "running"])
  /\ UNCHANGED <<positions, trades, orders, bots, regs, rec, cp>>
  /\ logged' = ""
  /\ response' = ""
  /\ UNCHANGED <<risk, short_uuid, macd, sold_in_cycle>>
  /\ UNCHANGED <<botRow, engine, clock>>

\* ------------------------------------------------------------------------
\* BotRunner._trading_loop
\* ------------------------------------------------------------------------
\* BotRunner._is_within_trading_window, the clock reading now_utc being a
\* minute of the day
is_within_trading_window(config, now_utc) ==
  LET now_et == (now_utc + ET_OFFSET) % (24 * 60)
      current_minutes == now_et
      start_minutes == config.start_hour * 60 + config.start_minute
      end_minutes == config.end_hour * 60 + config.end_minute
  IN  start_minutes <= current_minutes /\ current_minutes <= end_minutes

\* whether the cycle that begins now is skipped
SkipCycle(rr) ==
  \/ rr.is_paused
  \/ ~is_within_trading_window(ConfigOf(rr.bot_id), clock.utc)
  \/ ~engine.market_is_open

\* the sleep ends and the cycle is skipped
CycleSkip(r) ==
  LET rr == runner[r] IN
  /\ rr.pc = "sleep"
  /\ rr.is_running
  /\ SkipCycle(rr)
  /\ events' = <<>>
  /\ logged' = ""
  /\ response' = ""
  /\ UNCHANGED <<risk, short_uuid, macd, sold_in_cycle>>
  /\ UNCHANGED <<positions, trades, orders, bots, regs, botStatus, runner, rec, cp,
                 botRow, engine, clock>>

\* an exception escapes the body of the loop: the handler of _trading_loop
\* counts it and, at MAX_ERROR_COUNT, goes on to _auto_stop_on_error.  (The
\* calls of a cycle step have their handlers inside the step.)
LoopError(r) ==
  LET rr == runner[r] IN
  /\ rr.pc = "sleep"
  /\ rr.is_running
  /\ runner' = [runner EXCEPT ![r] =
       [rr EXCEPT !.consecutive_errors = @ + 1,
                  !.pc = IF rr.consecutive_errors + 1 >= MAX_ERROR_COUNT
                         THEN "auto_stop" ELSE "sleep"]]
  /\ events' = <<>>
  /\ logged' = "trading_loop"
  /\ response' = ""
  /\ UNCHANGED <<risk, short_uuid, macd, sold_in_cycle>>
  /\ UNCHANGED <<positions, trades, orders, bots, regs, botStatus, rec, cp,
                 botRow, engine, clock>>

\* an auto-stop that leaves Bot.is_active as it is
KeepActive(row, n) == [row EXCEPT !.error_count = n]

\* _auto_stop_on_error: is_active = False, error_count = the counter
Deactivate(row, n) == [row EXCEPT !.is_active = FALSE, !.error_count = n]

\* BotRunner._auto_stop_on_error, and the loop left by its break
AutoStopOnError(r) ==
  LET rr == runner[r]
      b == rr.bot_id
  IN
  /\ rr.pc = "auto_stop"
  /\ runner' = [runner EXCEPT ![r] = [rr EXCEPT !.pc = "done", !.is_running = FALSE]]
  /\ botStatus' = [botStatus EXCEPT ![b] = "error"]
  /\ botRow' = [botRow EXCEPT ![b] = Deactivate(@, rr.consecutive_errors)]
  /\ events' = Emit(<<>>, "bot_status_changed", [id |-> b, status |-> "error"])
  /\ logged' = ""
  /\ response' = ""
  /\ UNCHANGED <<risk, short_uuid, macd, sold_in_cycle>>
  /\ UNCHANGED <<positions, trades, orders, bots, regs, rec, cp, engine, clock>>

\* the sleep ends and the cycle is not skipped: _check_stop_loss_take_profit
\* loads the bot's open positions
CycleStartOf(r) ==
  LET rr == runner[r] IN
  /\ rr.pc = "sleep"
  /\ rr.is_running
  /\ ~SkipCycle(rr)
  /\ runner' = [runner EXCEPT ![r] =
       [rr EXCEPT !.pc = "sltp",
                  !.snap = [k \in 1..Cardinality(OpenIdsOfBot(rr.bot_id)) |->
                              Loaded(SetToSeq(OpenIdsOfBot(rr.bot_id))[k])]]]
  /\ events' = <<>>
  /\ UNCHANGED <<positions, trades, orders, bots, regs, botStatus, rec, cp>>
  /\ logged' = ""
  /\ response' = ""
  /\ UNCHANGED <<risk, short_uuid, macd>>
  /\ UNCHANGED <<botRow, engine, clock>>

CycleStart(r) == CycleStartOf(r) /\ UNCHANGED sold_in_cycle

\* the same step, the history of the cycle begun empty
CycleStartTracked(r) ==
  /\ CycleStartOf(r)
  /\ sold_in_cycle' = [sold_in_cycle EXCEPT ![r] = {}]

\* BotRunner._execute_sell up to the first poll: load the open position of
\* (bot, symbol), submit the sell order.  sub = FALSE is a submission the
\* broker refuses (submit_market_order raises).
\* Gives the runner record and the broker's orders after the call, and the
\* handler that caught what the call raised: its own for the submission, the
\* caller's (outer) for scalar_one_or_none finding several rows.
ExecuteSellSubmit(rr, s, price, reason, ret, sub, outer) ==
  LET ids == OpenIds(rr.bot_id, s)
      back == Return([rr EXCEPT !.ret = ret])
  IN  IF Cardinality(ids) # 1 \/ ~sub
      THEN [rr |-> back, orders |-> orders,
            logged |-> IF Cardinality(ids) = 0 THEN ""
                       ELSE IF Cardinality(ids) > 1 THEN outer
                       ELSE "execute_sell"]
      ELSE LET i == CHOOSE x \in ids : TRUE
           IN  [rr |-> [rr EXCEPT !.pc = "sell_wait", !.ret = ret,
                                  !.pos = Loaded(i), !.price = price,
                                  !.reason = reason, !.attempt = 0,
                                  !.order = Len(orders) + 1],
                orders |-> Append(orders, NewOrder(rr.bot_id, s, "sell", positions[i].quantity)),
                logged |-> ""]

\* one position of the stop-loss / take-profit loop
SltpStepOf(r, current_price, sub) ==
  LET rr == runner[r] IN
  /\ rr.pc = "sltp"
  /\ rr.snap # <<>>
  /\ sub => Len(orders) < MaxOrders
  /\ LET pos == Head(rr.snap)
         rest == [rr EXCEPT !.snap = Tail(rr.snap)]
         sl == Truthy(pos.row.stop_loss_price) /\ current_price <= pos.row.stop_loss_price
         tp == Truthy(pos.row.take_profit_price) /\ current_price >= pos.row.take_profit_price
         sell_reason == IF tp THEN <<"Take-profit triggered">> ELSE <<"Stop-loss triggered">>
     IN  IF current_price <= 0
         THEN /\ runner' = [runner EXCEPT ![r] = rest]
              /\ logged' = ""
              /\ response' = ""
              /\ UNCHANGED <<risk, short_uuid, macd>>
              /\ UNCHANGED <<positions, orders>>
         ELSE IF sl \/ tp
         THEN LET res == ExecuteSellSubmit(rest, pos.row.symbol, current_price,
                                           sell_reason, "sltp", sub, "check_sltp")
              IN  /\ runner' = [runner EXCEPT ![r] = res.rr]
                  /\ orders' = res.orders
                  /\ logged' = res.logged
                  /\ response' = ""
                  /\ UNCHANGED <<risk, short_uuid, macd>>
                  /\ UNCHANGED positions
         ELSE /\ runner' = [runner EXCEPT ![r] = rest]
              /\ logged' = ""
              /\ response' = ""
              /\ UNCHANGED <<risk, short_uuid, macd>>
              /\ positions' =
                   IF positions[pos.id].is_open
                   THEN [positions EXCEPT
                           ![pos.id].current_price = current_price,
                           ![pos.id].unrealized_pnl =
                              Round2((current_price - pos.row.entry_price) * pos.row.quantity)]
                   ELSE positions
              /\ UNCHANGED orders
  /\ events' = <<>>
  /\ UNCHANGED <<trades, bots, regs, botStatus, rec, cp>>
  /\ UNCHANGED <<botRow, engine, clock>>

SltpStep(r, current_price, sub) ==
  SltpStepOf(r, current_price, sub) /\ UNCHANGED sold_in_cycle

\* the same step, the symbol of a sell order the check submitted remembered
SltpStepTracked(r, current_price, sub) ==
  /\ SltpStepOf(r, current_price, sub)
  /\ sold_in_cycle' =
       IF runner'[r].pc = "sell_wait"
       THEN [sold_in_cycle EXCEPT ![r] = @ \cup {Head(runner[r].snap).row.symbol}]
       ELSE sold_in_cycle

\* the stop-loss loop is through: on to the first symbol
SltpDone(r) ==
  LET rr == runner[r] IN
  /\ rr.pc = "sltp"
  /\ rr.snap = <<>>
  /\ runner' = [runner EXCEPT ![r] = [rr EXCEPT !.pc = "proc", !.symidx = 1]]
  /\ events' = <<>>
  /\ UNCHANGED <<positions, trades, orders, bots, regs, botStatus, rec, cp>>
  /\ logged' = ""
  /\ response' = ""
  /\ UNCHANGED <<risk, short_uuid, macd, sold_in_cycle>>
  /\ UNCHANGED <<botRow, engine, clock>>

\* the last indicator, in configuration order, whose signal is BUY
LastBuy(sigs, k) ==
  LET ks == {j \in k..Len(IndicatorList) :
               IndicatorList[j] \in DOMAIN sigs /\ sigs[IndicatorList[j]] = "buy"}
  IN  IF ks = {} THEN "" ELSE IndicatorList[CHOOSE j \in ks : \A i \in ks : i <= j]

\* first indicator, in configuration order, whose signal is BUY ("" if none)
RECURSIVE FirstBuy(_, _)
FirstBuy(sigs, k) ==
  IF k > Len(IndicatorList) THEN ""
  ELSE IF IndicatorList[k] \in DOMAIN sigs /\ sigs[IndicatorList[k]] = "buy"
       THEN IndicatorList[k]
  ELSE FirstBuy(sigs, k + 1)

\* an exit on the SELL of any indicator
AnySell(sigs, entry_ind) ==
  IF \E i \in DOMAIN sigs : sigs[i] = "sell" THEN "sell" ELSE "hold"

\* per_indicator_signals.get(entry_ind, Signal.HOLD)
ExitSignal(sigs, entry_ind) ==
  IF entry_ind \in DOMAIN sigs THEN sigs[entry_ind] ELSE "hold"

\* BotRunner._process_symbol, up to the order submission of _execute_buy or
\* _execute_sell.  sigs: the per-indicator signals computed from the bars,
\* current_price: get_latest_price (0 when the quote fails)
\* cap bounds the orders the broker holds when the symbol is processed
ProcessSymbolUpTo(cap, r, sigs, current_price, sub) ==
  LET rr == runner[r]
      s == SymbolList[rr.symidx]
      ids == OpenIds(rr.bot_id, s)
      done == Return(rr)
  IN
  /\ rr.pc = "proc"
  /\ sub => Len(orders) < cap
  /\ IF Cardinality(ids) > 1
     THEN \* scalar_one_or_none raises MultipleResultsFound, logged
          /\ runner' = [runner EXCEPT ![r] = done]
          /\ logged' = "process_symbol"
          /\ response' = ""
          /\ UNCHANGED <<risk, short_uuid, macd, sold_in_cycle>>
          /\ UNCHANGED orders
     ELSE IF Cardinality(ids) = 1
     THEN LET open_position == positions[CHOOSE x \in ids : TRUE]
              entry_ind == open_position.entry_indicator
              entry_signal == ExitSignal(sigs, entry_ind)
          IN  IF entry_signal = "sell" /\ current_price > 0
              THEN LET res == ExecuteSellSubmit(rr, s, current_price,
                                                <<entry_ind, "sell signal">>, "proc", sub,
                                                "process_symbol")
                   IN  /\ runner' = [runner EXCEPT ![r] = res.rr]
                       /\ orders' = res.orders
                       /\ logged' = res.logged
                       /\ response' = ""
                       /\ UNCHANGED <<risk, short_uuid, macd, sold_in_cycle>>
              ELSE /\ runner' = [runner EXCEPT ![r] = done]
                   /\ logged' = ""
                   /\ response' = ""
                   /\ UNCHANGED <<risk, short_uuid, macd, sold_in_cycle>>
                   /\ UNCHANGED orders
     ELSE LET buy_indicator == FirstBuy(sigs, 1)
              qty == calculate_position_size(ConfigOf(rr.bot_id).capital, current_price,
                                             ConfigOf(rr.bot_id).risk_management)
              go == /\ buy_indicator # ""
                    /\ current_price > 0
                    /\ validate(ConfigOf(rr.bot_id), current_price, get_bot_today_pnl(rr.bot_id),
                                Cardinality(OpenIdsOfBot(rr.bot_id)))
                    /\ qty > 0
          IN  IF go /\ sub
              THEN /\ orders' = Append(orders, NewOrder(rr.bot_id, s, "buy", qty))
                   /\ runner' = [runner EXCEPT ![r] =
                        [rr EXCEPT !.pc = "buy_record", !.order = Len(orders) + 1,
                                   !.price = current_price, !.qty = qty,
                                   !.ind = buy_indicator]]
                   /\ logged' = ""
                   /\ response' = ""
                   /\ UNCHANGED <<risk, short_uuid, macd, sold_in_cycle>>
              ELSE /\ runner' = [runner EXCEPT ![r] = done]
                   /\ logged' = IF go THEN "execute_buy" ELSE ""
                   /\ response' = ""
                   /\ UNCHANGED <<risk, short_uuid, macd, sold_in_cycle>>
                   /\ UNCHANGED orders
  /\ events' = <<>>
  /\ botRow' = update_last_run(runner'[r])
  /\ UNCHANGED <<positions, trades, bots, regs, botStatus, rec, cp>>
  /\ UNCHANGED <<engine, clock>>

ProcessSymbol(r, sigs, current_price, sub) ==
  ProcessSymbolUpTo(MaxOrders, r, sigs, current_price, sub)

\* _execute_buy: the pending Trade and Position, one transaction
BuyRecord(r) ==
  LET rr == runner[r]
      s == SymbolList[rr.symidx]
  IN
  /\ rr.pc = "buy_record"
  /\ trades' = Append(trades,
       [bot_id |-> rr.bot_id, symbol |-> s, type |-> "buy", quantity |-> rr.qty,
        price |-> rr.price, order_id |-> rr.order, status |-> "new",
        profit_loss |-> None, reason |-> <<rr.ind, "buy signal">>, stale |-> FALSE])
  /\ positions' = Append(positions,
       [bot_id |-> rr.bot_id, symbol |-> s, quantity |-> rr.qty,
        entry_price |-> rr.price, current_price |-> rr.price,
        stop_loss_price |-> calculate_stop_loss(rr.price, ConfigOf(rr.bot_id).risk_management),
        take_profit_price |-> calculate_take_profit(rr.price, ConfigOf(rr.bot_id).risk_management),
        unrealized_pnl |-> 0, realized_pnl |-> 0, is_open |-> TRUE,
        closed_at |-> FALSE, entry_indicator |-> rr.ind])
  /\ runner' = [runner EXCEPT ![r] =
       [rr EXCEPT !.pc = "buy_wait", !.trade_id = Len(trades) + 1,
                  !.position_id = Len(positions) + 1, !.attempt = 0]]
  /\ events' = <<>>
  /\ UNCHANGED <<orders, bots, regs, botStatus, rec, cp>>
  /\ logged' = ""
  /\ response' = ""
  /\ UNCHANGED <<risk, short_uuid, macd, sold_in_cycle>>
  /\ UNCHANGED <<botRow, engine, clock>>

\* BotRunner._wait_for_fill: one poll.  The order status is returned when it
\* is filled or a terminal non-fill, or when the attempts are used up.
WaitForFill(r, at, nxt) ==
  LET rr == runner[r]
      order_status == order_to_dict(rr.order)
  IN
  /\ rr.pc = at
  /\ runner' = [runner EXCEPT ![r] =
       IF \/ order_status.status = "filled"
          \/ order_status.status \in NonFill
          \/ rr.attempt + 1 >= MaxAttempts
       THEN [rr EXCEPT !.pc = nxt, !.ostatus = order_status, !.attempt = 0]
       ELSE [rr EXCEPT !.attempt = @ + 1]]
  /\ events' = <<>>
  /\ UNCHANGED <<positions, trades, orders, bots, regs, botStatus, rec, cp>>
  /\ logged' = ""
  /\ response' = ""
  /\ UNCHANGED <<risk, short_uuid, macd, sold_in_cycle>>
  /\ UNCHANGED <<botRow, engine, clock>>

\* get_order raises inside _wait_for_fill: the handler of _execute_buy /
\* _execute_sell logs it and the call returns
WaitForFillFails(r) ==
  LET rr == runner[r] IN
  /\ rr.pc \in {"buy_wait", "sell_wait"}
  /\ runner' = [runner EXCEPT ![r] = Return(rr)]
  /\ events' = <<>>
  /\ UNCHANGED <<positions, trades, orders, bots, regs, botStatus, rec, cp>>
  /\ logged' = IF rr.pc = "buy_wait" THEN "execute_buy" ELSE "execute_sell"
  /\ response' = ""
  /\ UNCHANGED <<risk, short_uuid, macd, sold_in_cycle>>
  /\ botRow' = update_last_run(runner'[r])
  /\ UNCHANGED <<engine, clock>>

BuyPoll(r) == WaitForFill(r, "buy_wait", "buy_update")

SellPoll(r) == WaitForFill(r, "sell_wait", "sell_update")

\* a cleanup that leaves the Position row as it is
LeavePositionRow(ps, i) == ps

\* a close that leaves closed_at null
CloseWithoutTime(ps, i) == [ps EXCEPT ![i].is_open = FALSE]

\* is_open = False, closed_at = utcnow()
ClosePositionRow(ps, i) == [ps EXCEPT ![i].is_open = FALSE, ![i].closed_at = TRUE]

trade_payload(i, t) ==
  [id |-> i, type |-> t.type, status |-> t.status, price |-> t.price,
   order_id |-> t.order_id]

position_payload(i, q) ==
  [id |-> i, is_open |-> q.is_open, entry_price |-> q.entry_price]

\* a fill written to the Position that leaves the stop-loss and take-profit
\* prices of the quote in place
FillPositionKeepingStops(db_pos, filled_qty, filled_price, risk_config) ==
  IF Truthy(filled_price)
  THEN [db_pos EXCEPT !.quantity = filled_qty,
                      !.entry_price = filled_price,
                      !.current_price = filled_price]
  ELSE [db_pos EXCEPT !.quantity = filled_qty]

\* _execute_buy: the Position updated with the fill data
FillPosition(db_pos, filled_qty, filled_price, risk_config) ==
  IF Truthy(filled_price)
  THEN [db_pos EXCEPT
          !.quantity = filled_qty,
          !.entry_price = filled_price,
          !.current_price = filled_price,
          !.stop_loss_price = calculate_stop_loss(filled_price, risk_config),
          !.take_profit_price = calculate_take_profit(filled_price, risk_config)]
  ELSE [db_pos EXCEPT !.quantity = filled_qty]

\* _execute_buy after _wait_for_fill returned
BuyUpdate(r) ==
  LET rr == runner[r]
      status == rr.ostatus.status
      filled_price == rr.ostatus.filled_avg_price
      filled_qty == IF rr.ostatus.filled_qty # 0 THEN rr.ostatus.filled_qty ELSE rr.qty
      rc == ConfigOf(rr.bot_id).risk_management
      t == rr.trade_id
      p == rr.position_id
  IN
  /\ rr.pc = "buy_update"
  /\ IF status \in NonFill
     THEN /\ trades' = [trades EXCEPT ![t].status = status]
          /\ positions' = ClosePositionRow(positions, p)
          /\ events' = <<>>
     ELSE /\ trades' = [trades EXCEPT
               ![t].status = status,
               ![t].quantity = filled_qty,
               ![t].price = IF Truthy(filled_price) THEN filled_price ELSE @]
          /\ positions' = [positions EXCEPT
                             ![p] = FillPosition(@, filled_qty, filled_price, rc)]
          /\ events' = Emit(Emit(<<>>, "trade_executed", trade_payload(t, trades'[t])),
                            "position_updated", position_payload(p, positions'[p]))
  /\ runner' = [runner EXCEPT ![r] = Return(rr)]
  /\ UNCHANGED <<orders, bots, regs, botStatus, rec, cp>>
  /\ logged' = ""
  /\ response' = ""
  /\ UNCHANGED <<risk, short_uuid, macd, sold_in_cycle>>
  /\ botRow' = update_last_run(runner'[r])
  /\ UNCHANGED <<engine, clock>>

\* _execute_sell after _wait_for_fill returned; position is the ORM object
\* loaded before the order was submitted
SellUpdate(r) ==
  LET rr == runner[r]
      sell_status == rr.ostatus.status
      position == rr.pos.row
      filled_price == IF Truthy(rr.ostatus.filled_avg_price)
                      THEN rr.ostatus.filled_avg_price ELSE rr.price
      profit_loss == Round2((filled_price - position.entry_price) * position.quantity)
  IN
  /\ rr.pc = "sell_update"
  /\ IF sell_status \in NonFill
     THEN /\ events' = <<>>
          /\ UNCHANGED <<positions, trades>>
     ELSE /\ positions' = [positions EXCEPT
               ![rr.pos.id].is_open = FALSE,
               ![rr.pos.id].closed_at = TRUE,
               ![rr.pos.id].current_price = filled_price,
               ![rr.pos.id].realized_pnl = profit_loss,
               ![rr.pos.id].unrealized_pnl = 0]
          /\ trades' = Append(trades,
               [bot_id |-> rr.bot_id, symbol |-> position.symbol, type |-> "sell",
                quantity |-> position.quantity, price |-> filled_price,
                order_id |-> rr.order, status |-> sell_status,
                profit_loss |-> profit_loss, reason |-> rr.reason, stale |-> FALSE])
          /\ events' = Emit(Emit(<<>>, "trade_executed",
                                 trade_payload(Len(trades) + 1, trades'[Len(trades) + 1])),
                            "position_updated",
                            position_payload(rr.pos.id, positions'[rr.pos.id]))
  /\ runner' = [runner EXCEPT ![r] = Return(rr)]
  /\ UNCHANGED <<orders, bots, regs, botStatus, rec, cp>>
  /\ logged' = ""
  /\ response' = ""
  /\ UNCHANGED <<risk, short_uuid, macd, sold_in_cycle>>
  /\ botRow' = update_last_run(runner'[r])
  /\ UNCHANGED <<engine, clock>>

\* ------------------------------------------------------------------------
\* The broker's side of an order
\* ------------------------------------------------------------------------
\* a filled order carries its average fill price
FillPrices == Prices

\* the ends the broker itself puts to an order
BrokerEnds == {"rejected", "expired"}

\* a sell fills only out of shares the account holds (no short selling)
CanFill(o, n) ==
  orders[o].side = "buy" \/ BrokerQty(orders[o].symbol) >= n

BrokerAck(o) ==
  /\ orders[o].status = "accepted"
  /\ orders' = [orders EXCEPT ![o].status = "new"]
  /\ events' = <<>>
  /\ UNCHANGED <<positions, trades, bots, regs, botStatus, runner, rec, cp>>
  /\ logged' = ""
  /\ response' = ""
  /\ UNCHANGED <<risk, short_uuid, macd, sold_in_cycle>>
  /\ UNCHANGED <<botRow, engine, clock>>

BrokerPartialFill(o, price) ==
  /\ orders[o].status \in {"accepted", "new"}
  /\ orders[o].qty > 1
  /\ CanFill(o, 1)
  /\ orders' = [orders EXCEPT ![o].status = "partially_filled",
                              ![o].filled_qty = 1,
                              ![o].filled_avg_price = price]
  /\ events' = <<>>
  /\ UNCHANGED <<positions, trades, bots, regs, botStatus, runner, rec, cp>>
  /\ logged' = ""
  /\ response' = ""
  /\ UNCHANGED <<risk, short_uuid, macd, sold_in_cycle>>
  /\ UNCHANGED <<botRow, engine, clock>>

BrokerFill(o, price) ==
  /\ orders[o].status \in NonTerminal
  /\ CanFill(o, orders[o].qty - orders[o].filled_qty)
  /\ orders' = [orders EXCEPT ![o].status = "filled",
                              ![o].filled_qty = orders[o].qty,
                              ![o].filled_avg_price = price]
  /\ events' = <<>>
  /\ UNCHANGED <<positions, trades, bots, regs, botStatus, runner, rec, cp>>
  /\ logged' = ""
  /\ response' = ""
  /\ UNCHANGED <<risk, short_uuid, macd, sold_in_cycle>>
  /\ UNCHANGED <<botRow, engine, clock>>

BrokerEnd(o, st) ==
  /\ orders[o].status \in NonTerminal
  /\ orders' = [orders EXCEPT ![o].status = st]
  /\ events' = <<>>
  /\ UNCHANGED <<positions, trades, bots, regs, botStatus, runner, rec, cp>>
  /\ logged' = ""
  /\ response' = ""
  /\ UNCHANGED <<risk, short_uuid, macd, sold_in_cycle>>
  /\ UNCHANGED <<botRow, engine, clock>>

\* five minutes go by: the trades no _wait_for_fill is polling for (a wait
\* lasts 30 polls of a second) are older than STALE_ORDER_THRESHOLD
TimePasses ==
  LET polled == {runner[r].trade_id : r \in {q \in Runners :
                    runner[q].pc \in {"buy_wait", "buy_update"}}}
  IN
  /\ \E i \in 1..Len(trades) : ~trades[i].stale /\ i \notin polled
  /\ trades' = [i \in 1..Len(trades) |->
                  IF i \in polled THEN trades[i] ELSE [trades[i] EXCEPT !.stale = TRUE]]
  /\ events' = <<>>
  /\ UNCHANGED <<positions, orders, bots, regs, botStatus, runner, rec, cp>>
  /\ logged' = ""
  /\ response' = ""
  /\ UNCHANGED <<risk, short_uuid, macd, sold_in_cycle>>
  /\ UNCHANGED <<botRow, engine, clock>>

\* ------------------------------------------------------------------------
\* PositionReconciler.full_reconciliation for the user
\* ------------------------------------------------------------------------
PendingIds == {i \in 1..Len(trades) : trades[i].status \in {"new", "partially_filled"}}

\* resolve_pending_trades: the pending trades are loaded
RecLoad ==
  /\ rec.pc = "idle"
  /\ engine.reconciler > 0 \/ engine.start_pc = "reconcile"
  /\ engine' = IF engine.start_pc = "reconcile"
               THEN [engine EXCEPT !.start_pc = "reconciling"]
               ELSE engine
  /\ rec' = [rec EXCEPT !.pc = "trades",
                        !.queue = [k \in 1..Cardinality(PendingIds) |->
                                     [id |-> SetToSeq(PendingIds)[k],
                                      row |-> trades[SetToSeq(PendingIds)[k]]]]]
  /\ events' = <<>>
  /\ UNCHANGED <<positions, trades, orders, bots, regs, botStatus, runner, cp>>
  /\ logged' = ""
  /\ response' = ""
  /\ UNCHANGED <<risk, short_uuid, macd, sold_in_cycle>>
  /\ UNCHANGED <<botRow, clock>>

\* _handle_filled_order; pos is the open position the query returned, 0 if none
handle_filled_order(trade, order, pos) ==
  LET fill_price == IF Truthy(order.filled_avg_price) THEN order.filled_avg_price
                    ELSE trade.row.price
      filled_qty == IF order.filled_qty # 0 THEN order.filled_qty ELSE trade.row.quantity
  IN  /\ trades' = [trades EXCEPT ![trade.id].status = "filled",
                                  ![trade.id].price = fill_price,
                                  ![trade.id].quantity = filled_qty]
      /\ positions' = IF pos = 0 THEN positions
                      ELSE [positions EXCEPT ![pos].entry_price = fill_price,
                                             ![pos].quantity = filled_qty]
      /\ UNCHANGED orders

\* _handle_terminal_order
handle_terminal_order(trade, alpaca_status, pos) ==
  /\ trades' = [trades EXCEPT ![trade.id].status = alpaca_status]
  /\ positions' = IF pos = 0 THEN positions ELSE ClosePositionRow(positions, pos)
  /\ UNCHANGED orders

\* _cancel_stale_order; cancelled = FALSE is a cancel_order that raises
cancel_stale_order(trade, pos, cancelled) ==
  /\ orders' = IF cancelled
               THEN [orders EXCEPT ![trade.row.order_id].status = "canceled"]
               ELSE orders
  /\ trades' = [trades EXCEPT ![trade.id].status = "canceled"]
  /\ positions' = IF pos = 0 THEN positions ELSE ClosePositionRow(positions, pos)

\* resolve_pending_trades: one trade of the loop.  got = FALSE is a get_order
\* that raises
RecResolve(got, cancelled) ==
  /\ rec.pc = "trades"
  /\ rec.queue # <<>>
  /\ LET trade == Head(rec.queue)
         order == order_to_dict(trade.row.order_id)
         ids == OpenIds(trade.row.bot_id, trade.row.symbol)
     IN  \E pos \in (IF ids = {} THEN {0} ELSE ids) :
           IF ~got THEN UNCHANGED <<positions, trades, orders>>
           ELSE IF order.status = "filled" THEN handle_filled_order(trade, order, pos)
           ELSE IF order.status \in NonFill
                THEN handle_terminal_order(trade, order.status, pos)
           ELSE IF order.status \in NonTerminal /\ trades[trade.id].stale
                THEN cancel_stale_order(trade, pos, cancelled)
           ELSE UNCHANGED <<positions, trades, orders>>
  /\ rec' = [rec EXCEPT !.queue = Tail(rec.queue)]
  /\ events' = <<>>
  /\ UNCHANGED <<bots, regs, botStatus, runner, cp>>
  /\ logged' = ""
  /\ response' = ""
  /\ UNCHANGED <<risk, short_uuid, macd, sold_in_cycle>>
  /\ UNCHANGED <<botRow, engine, clock>>

HeldSymbols == {s \in Symbols : BrokerQty(s) # 0}

\* reconcile_positions: get_positions (fetched = FALSE: it raises and the pass
\* returns no discrepancy); price is the broker's current price
RecFetch(fetched, price) ==
  /\ rec.pc = "trades"
  /\ rec.queue = <<>>
  /\ rec' = IF fetched
            THEN [rec EXCEPT !.pc = "sum",
                             !.alpaca = [s \in HeldSymbols |->
                                           [qty |-> BrokerQty(s), current_price |-> price]]]
            ELSE IdleRec
  /\ events' = <<>>
  /\ UNCHANGED <<positions, trades, orders, bots, regs, botStatus, runner, cp>>
  /\ logged' = ""
  /\ response' = ""
  /\ UNCHANGED <<risk, short_uuid, macd, sold_in_cycle>>
  /\ UNCHANGED <<botRow, engine, clock>>

OpenQty(ps, s) ==
  SumSeq([i \in 1..Len(ps) |->
            IF ps[i].symbol = s /\ ps[i].is_open THEN ps[i].quantity ELSE 0], Len(ps))

\* reconcile_positions: the open quantities summed per symbol
RecSum ==
  /\ rec.pc = "sum"
  /\ rec' = [rec EXCEPT !.pc = "repair",
                        !.db = [s \in {x \in Symbols : OpenQty(positions, x) > 0} |->
                                  OpenQty(positions, s)]]
  /\ events' = <<>>
  /\ UNCHANGED <<positions, trades, orders, bots, regs, botStatus, runner, cp>>
  /\ logged' = ""
  /\ response' = ""
  /\ UNCHANGED <<risk, short_uuid, macd, sold_in_cycle>>
  /\ UNCHANGED <<botRow, engine, clock>>

\* every open position of symbol closed, whatever the excess
CloseEveryOpen(ps, symbol, remaining, i) ==
  [k \in 1..Len(ps) |->
     IF k >= i /\ ps[k].symbol = symbol /\ ps[k].is_open
     THEN [ps[k] EXCEPT !.is_open = FALSE, !.closed_at = TRUE]
     ELSE ps[k]]

\* _auto_close_stale_positions: the open positions of symbol from the oldest,
\* closed until excess shares are removed; i is the next row
RECURSIVE auto_close_stale_positions(_, _, _, _)
auto_close_stale_positions(ps, symbol, remaining, i) ==
  IF i > Len(ps) \/ remaining <= 0 THEN ps
  ELSE IF ps[i].symbol = symbol /\ ps[i].is_open
       THEN auto_close_stale_positions(ClosePositionRow(ps, i), symbol,
                                       remaining - ps[i].quantity, i + 1)
       ELSE auto_close_stale_positions(ps, symbol, remaining, i + 1)

\* _update_live_prices
update_live_prices(ps, alpaca) ==
  [i \in 1..Len(ps) |->
     IF ps[i].is_open /\ ps[i].symbol \in DOMAIN alpaca
     THEN [ps[i] EXCEPT
             !.current_price = alpaca[ps[i].symbol].current_price,
             !.unrealized_pnl = Round2((alpaca[ps[i].symbol].current_price
                                        - ps[i].entry_price) * ps[i].quantity)]
     ELSE ps[i]]

AlpacaQty(alpaca, s) == IF s \in DOMAIN alpaca THEN alpaca[s].qty ELSE 0

DbQty(db, s) == IF s \in DOMAIN db THEN db[s] ELSE 0

Discrepancies(alpaca, db) ==
  {[type |-> IF AlpacaQty(alpaca, s) > DbQty(db, s) THEN "excess_in_alpaca"
             ELSE "excess_in_db",
    symbol |-> s] :
   s \in {x \in DOMAIN alpaca \cup DOMAIN db : AlpacaQty(alpaca, x) # DbQty(db, x)}}

RECURSIVE CloseAll(_, _, _, _)
CloseAll(ps, syms, alpaca, db) ==
  IF syms = {} THEN ps
  ELSE LET s == CHOOSE x \in syms : TRUE
           nps == IF DbQty(db, s) > AlpacaQty(alpaca, s)
                  THEN auto_close_stale_positions(ps, s, DbQty(db, s) - AlpacaQty(alpaca, s), 1)
                  ELSE ps
       IN  CloseAll(nps, syms \ {s}, alpaca, db)

\* reconcile_positions: the symbols compared, the stale positions closed, the
\* prices refreshed, the commit, the alert
RecRepair ==
  LET d == Discrepancies(rec.alpaca, rec.db) IN
  /\ rec.pc = "repair"
  /\ positions' = update_live_prices(
                    CloseAll(positions, DOMAIN rec.alpaca \cup DOMAIN rec.db,
                             rec.alpaca, rec.db),
                    rec.alpaca)
  /\ events' = IF d = {} THEN <<>>
               ELSE Emit(<<>>, "reconciliation_alert", d)
  /\ rec' = IdleRec
  /\ UNCHANGED <<trades, orders, bots, regs, botStatus, runner, cp>>
  /\ logged' = ""
  /\ response' = ""
  /\ UNCHANGED <<risk, short_uuid, macd, sold_in_cycle>>
  /\ UNCHANGED <<botRow, engine, clock>>

\* ------------------------------------------------------------------------
\* close_position request
\* ------------------------------------------------------------------------
\* up to the poll: the position is loaded and the sell order submitted
\* (sub = FALSE: submit_market_order raises, the request fails)
\* cap bounds the orders the broker holds when the request arrives
ClosePositionSubmitUpTo(cap, pid, pause_bot, sub) ==
  /\ cp.pc = "idle"
  /\ pid \in 1..Len(positions)
  /\ positions[pid].is_open
  /\ sub => Len(orders) < cap
  /\ IF sub
     THEN /\ orders' = Append(orders, NewOrder(positions[pid].bot_id,
                                               positions[pid].symbol, "sell",
                                               positions[pid].quantity))
          /\ cp' = [pc |-> "wait", pos |-> Loaded(pid), order |-> Len(orders) + 1,
                    pause_bot |-> pause_bot]
          /\ response' = ""
     ELSE /\ UNCHANGED <<orders, cp>>
          /\ response' = "ALPACA_ERROR"
  /\ events' = <<>>
  /\ UNCHANGED <<positions, trades, bots, regs, botStatus, runner, rec>>
  /\ logged' = ""
  /\ UNCHANGED <<risk, short_uuid, macd, sold_in_cycle>>
  /\ UNCHANGED <<botRow, engine, clock>>

ClosePositionSubmit(pid, pause_bot, sub) ==
  ClosePositionSubmitUpTo(MaxOrders, pid, pause_bot, sub)

\* close_position for a Position that is closed already
ClosePositionRefused(pid) ==
  /\ cp.pc = "idle"
  /\ pid \in 1..Len(positions)
  /\ ~positions[pid].is_open
  /\ response' = "POSITION_ALREADY_CLOSED"
  /\ events' = <<>>
  /\ logged' = ""
  /\ UNCHANGED <<positions, trades, orders, bots, regs, botStatus, runner, rec, cp,
                 botRow, engine, clock, risk, short_uuid, macd, sold_in_cycle>>

\* close_position when no default client is configured (alpaca_client is
\* None): no order; the position closed at its current price, the sell
\* trade, the events, the pause
ClosePositionNoClient(pid, pause_bot) ==
  LET position == positions[pid]
      sell_price == position.current_price
      profit_loss == Round2((sell_price - position.entry_price) * position.quantity)
      b == position.bot_id
      pause == pause_bot /\ botStatus[b] = "running"
  IN
  /\ cp.pc = "idle"
  /\ pid \in 1..Len(positions)
  /\ position.is_open
  /\ response' = "success"
  /\ positions' = [positions EXCEPT
       ![pid].is_open = FALSE,
       ![pid].closed_at = TRUE,
       ![pid].current_price = sell_price,
       ![pid].realized_pnl = profit_loss,
       ![pid].unrealized_pnl = 0]
  /\ trades' = Append(trades,
       [bot_id |-> b, symbol |-> position.symbol, type |-> "sell",
        quantity |-> position.quantity, price |-> sell_price,
        order_id |-> None, status |-> "filled",
        profit_loss |-> profit_loss, reason |-> <<"Manual close">>,
        stale |-> FALSE])
  /\ botStatus' = IF pause THEN [botStatus EXCEPT ![b] = "paused"] ELSE botStatus
  /\ runner' = IF pause /\ bots[b] # NoRunner
               THEN [runner EXCEPT ![bots[b]].is_paused = TRUE]
               ELSE runner
  /\ LET e1 == Emit(<<>>, "position_updated", position_payload(pid, positions'[pid]))
         e2 == Emit(e1, "trade_executed",
                    trade_payload(Len(trades) + 1, trades'[Len(trades) + 1]))
     IN  events' = IF pause
                   THEN Emit(e2, "bot_status_changed", [id |-> b, status |-> "paused"])
                   ELSE e2
  /\ logged' = ""
  /\ UNCHANGED <<orders, bots, regs, rec, cp, botRow, engine, clock, risk, short_uuid, macd, sold_in_cycle>>

\* after the one-second wait: get_order (got = FALSE: it raises and the
\* request fails), the position closed, the sell trade, the events, the pause
ClosePositionFinish(got) ==
  LET position == cp.pos.row
      order_status == order_to_dict(cp.order)
      sell_price == IF Truthy(order_status.filled_avg_price)
                    THEN order_status.filled_avg_price ELSE position.current_price
      profit_loss == Round2((sell_price - position.entry_price) * position.quantity)
      b == position.bot_id
      pause == cp.pause_bot /\ botStatus[b] = "running"
  IN
  /\ cp.pc = "wait"
  /\ cp' = [pc |-> "idle", pos |-> NoPos, order |-> 0, pause_bot |-> FALSE]
  /\ response' = IF got THEN "success" ELSE "ALPACA_ERROR"
  /\ IF ~got
     THEN /\ events' = <<>>
          /\ UNCHANGED <<positions, trades, botStatus, runner>>
     ELSE /\ positions' = [positions EXCEPT
               ![cp.pos.id].is_open = FALSE,
               ![cp.pos.id].closed_at = TRUE,
               ![cp.pos.id].current_price = sell_price,
               ![cp.pos.id].realized_pnl = profit_loss,
               ![cp.pos.id].unrealized_pnl = 0]
          /\ trades' = Append(trades,
               [bot_id |-> b, symbol |-> position.symbol, type |-> "sell",
                quantity |-> position.quantity, price |-> sell_price,
                order_id |-> cp.order, status |-> "filled",
                profit_loss |-> profit_loss, reason |-> <<"Manual close">>,
                stale |-> FALSE])
          /\ botStatus' = IF pause THEN [botStatus EXCEPT ![b] = "paused"] ELSE botStatus
          /\ runner' = IF pause /\ bots[b] # NoRunner
                       THEN [runner EXCEPT ![bots[b]].is_paused = TRUE]
                       ELSE runner
          /\ LET e1 == Emit(<<>>, "position_updated",
                            position_payload(cp.pos.id, positions'[cp.pos.id]))
                 e2 == Emit(e1, "trade_executed",
                            trade_payload(Len(trades) + 1, trades'[Len(trades) + 1]))
             IN  events' = IF pause
                           THEN Emit(e2, "bot_status_changed", [id |-> b, status |-> "paused"])
                           ELSE e2
  /\ UNCHANGED <<orders, bots, regs, rec>>
  /\ logged' = ""
  /\ UNCHANGED <<risk, short_uuid, macd, sold_in_cycle>>
  /\ UNCHANGED <<botRow, engine, clock>>

\* ------------------------------------------------------------------------
\* TradingEngine.start, TradingEngine.stop, the market monitor, the clock
\* ------------------------------------------------------------------------
\* a guard that lets every call of start() through
NeverRunning(e) == FALSE

\* the guard of start()
AlreadyRunning(e) == e.running

\* start() is called: it returns at once when the engine is running, else it
\* sets the flag and awaits _update_market_status.  (The lifespan calls
\* start() once per process; a later start() stands for the next process,
\* which finds the store the last one left.)
EngineStart ==
  /\ IF AlreadyRunning(engine)
     THEN /\ UNCHANGED engine
          /\ logged' = "already_running"
          /\ response' = ""
          /\ UNCHANGED <<risk, short_uuid, macd, sold_in_cycle>>
     ELSE /\ engine.start_pc = "none"
          /\ engine.stop_pc = "none"
          /\ engine' = [engine EXCEPT !.running = TRUE, !.start_pc = "market"]
          /\ logged' = ""
          /\ response' = ""
          /\ UNCHANGED <<risk, short_uuid, macd, sold_in_cycle>>
  /\ events' = <<>>
  /\ UNCHANGED <<positions, trades, orders, bots, regs, botStatus, runner, rec, cp,
                 botRow, clock>>

\* what get_clock gives _update_market_status: the market open or closed, an
\* exception, or nothing to ask because there is no default client
Clocks == {"open", "closed", "failed", "none"}

\* a status that every answer but 'open' closes
ClosedUnlessOpen(market_is_open, answer) == answer = "open"

\* _update_market_status: the new value of market_is_open
update_market_status(market_is_open, answer) ==
  IF answer = "none" THEN FALSE
  ELSE IF answer = "failed" THEN market_is_open
  ELSE answer = "open"

\* start(): _update_market_status has returned, the market monitor is
\* created (its loop ends at once when the engine was stopped meanwhile),
\* and _load_running_bots sends its query
StartMonitor(answer) ==
  /\ engine.start_pc = "market"
  /\ engine' = [engine EXCEPT
                  !.market_is_open = update_market_status(engine.market_is_open, answer),
                  !.previous_is_open = update_market_status(engine.market_is_open, answer),
                  !.emitted = "none",
                  !.monitor = IF engine.running THEN @ + 1 ELSE @,
                  !.start_pc = "load"]
  /\ events' = <<>>
  /\ logged' = ""
  /\ response' = ""
  /\ UNCHANGED <<risk, short_uuid, macd, sold_in_cycle>>
  /\ UNCHANGED <<positions, trades, orders, bots, regs, botStatus, runner, rec, cp,
                 botRow, clock>>

\* _load_running_bots: the bots with status 'running'
StartLoad ==
  /\ engine.start_pc = "load"
  /\ engine' = [engine EXCEPT
                  !.load = {b \in Bots : botStatus[b] = "running"},
                  !.start_pc = "register"]
  /\ events' = <<>>
  /\ logged' = ""
  /\ response' = ""
  /\ UNCHANGED <<risk, short_uuid, macd, sold_in_cycle>>
  /\ UNCHANGED <<positions, trades, orders, bots, regs, botStatus, runner, rec, cp,
                 botRow, clock>>

\* the register_bot call _load_running_bots awaits has returned
Registered == IF engine.awaiting = "" THEN TRUE ELSE regs[engine.awaiting] = 0

\* _load_running_bots: register_bot for the next bot, up to its first
\* suspension
StartRegister(b) ==
  /\ engine.start_pc = "register"
  /\ Registered
  /\ b \in engine.load
  /\ IF bots[b] # NoRunner
     THEN /\ regs' = regs
          /\ engine' = [engine EXCEPT !.load = @ \ {b}, !.awaiting = ""]
     ELSE /\ regs[b] < Cardinality(FreeRunners)
          /\ regs' = [regs EXCEPT ![b] = @ + 1]
          /\ engine' = [engine EXCEPT !.load = @ \ {b}, !.awaiting = b]
  /\ events' = <<>>
  /\ logged' = ""
  /\ response' = ""
  /\ UNCHANGED <<risk, short_uuid, macd, sold_in_cycle>>
  /\ UNCHANGED <<positions, trades, orders, bots, botStatus, runner, rec, cp,
                 botRow, clock>>

\* _load_running_bots is through: start() goes on to the startup
\* reconciliation (RecLoad begins its pass)
StartLoaded ==
  /\ engine.start_pc = "register"
  /\ Registered
  /\ engine.load = {}
  /\ engine' = [engine EXCEPT !.awaiting = "", !.start_pc = "reconcile"]
  /\ events' = <<>>
  /\ logged' = ""
  /\ response' = ""
  /\ UNCHANGED <<risk, short_uuid, macd, sold_in_cycle>>
  /\ UNCHANGED <<positions, trades, orders, bots, regs, botStatus, runner, rec, cp,
                 botRow, clock>>

\* start(): the startup reconciliation has returned, the reconciler task is
\* created (its loop ends at once when the engine was stopped meanwhile)
StartReturn ==
  /\ engine.start_pc = "reconciling"
  /\ rec.pc = "idle"
  /\ engine' = [engine EXCEPT
                  !.reconciler = IF engine.running THEN @ + 1 ELSE @,
                  !.start_pc = "none"]
  /\ events' = <<>>
  /\ logged' = ""
  /\ response' = ""
  /\ UNCHANGED <<risk, short_uuid, macd, sold_in_cycle>>
  /\ UNCHANGED <<positions, trades, orders, bots, regs, botStatus, runner, rec, cp,
                 botRow, clock>>

\* the monitor's record of the event it sends
EmittedStatus(is_open) == IF is_open THEN "open" ELSE "closed"

\* _market_monitor_loop: one poll, _update_market_status and the event on a
\* transition
MonitorPoll(answer) ==
  LET is_open == update_market_status(engine.market_is_open, answer) IN
  /\ engine.monitor > 0
  /\ engine.running
  /\ IF is_open # engine.previous_is_open
     THEN /\ events' = Emit(<<>>, "market_status_changed", [is_open |-> is_open])
          /\ engine' = [engine EXCEPT !.market_is_open = is_open,
                                      !.previous_is_open = is_open,
                                      !.emitted = EmittedStatus(is_open)]
     ELSE /\ events' = <<>>
          /\ engine' = [engine EXCEPT !.market_is_open = is_open]
  /\ logged' = ""
  /\ response' = ""
  /\ UNCHANGED <<risk, short_uuid, macd, sold_in_cycle>>
  /\ UNCHANGED <<positions, trades, orders, bots, regs, botStatus, runner, rec, cp,
                 botRow, clock>>

\* stop() is called, by the lifespan that awaited start() and has served its
\* last request: the flag is cleared and the keys of the registry are listed
EngineStop ==
  /\ engine.stop_pc = "none"
  /\ engine.start_pc = "none"
  /\ \A b \in Bots : regs[b] = 0
  /\ engine' = [engine EXCEPT !.running = FALSE, !.stop_pc = "bots",
                              !.stopping = {b \in Bots : bots[b] # NoRunner}]
  /\ events' = <<>>
  /\ logged' = ""
  /\ response' = ""
  /\ UNCHANGED <<risk, short_uuid, macd, sold_in_cycle>>
  /\ UNCHANGED <<positions, trades, orders, bots, regs, botStatus, runner, rec, cp,
                 botRow, clock>>

\* stop(): unregister_bot for one listed bot; BotRunner.stop cancels the task
StopUnregister(b) ==
  /\ engine.stop_pc = "bots"
  /\ b \in engine.stopping
  /\ engine' = [engine EXCEPT !.stopping = @ \ {b}]
  /\ bots' = [bots EXCEPT ![b] = NoRunner]
  /\ runner' = IF bots[b] = NoRunner THEN runner
               ELSE [runner EXCEPT ![bots[b]] = FreshRunner]
  /\ events' = <<>>
  /\ logged' = ""
  /\ response' = ""
  /\ UNCHANGED <<risk, short_uuid, macd, sold_in_cycle>>
  /\ UNCHANGED <<positions, trades, orders, regs, botStatus, rec, cp, botRow, clock>>

\* stop(): the market monitor task is cancelled and awaited
StopMonitor ==
  /\ engine.stop_pc = "bots"
  /\ engine.stopping = {}
  /\ engine' = [engine EXCEPT !.monitor = IF @ > 0 THEN @ - 1 ELSE @,
                              !.stop_pc = "reconciler"]
  /\ events' = <<>>
  /\ logged' = ""
  /\ response' = ""
  /\ UNCHANGED <<risk, short_uuid, macd, sold_in_cycle>>
  /\ UNCHANGED <<positions, trades, orders, bots, regs, botStatus, runner, rec, cp,
                 botRow, clock>>

\* stop(): the reconciler task is cancelled, in the middle of a pass if it is
\* in one, and awaited; stop() returns
StopReturn ==
  /\ engine.stop_pc = "reconciler"
  /\ engine' = [engine EXCEPT !.reconciler = IF @ > 0 THEN @ - 1 ELSE @,
                              !.stop_pc = "none"]
  /\ rec' = IF engine.reconciler > 0 /\ engine.start_pc # "reconciling"
            THEN IdleRec ELSE rec
  /\ events' = <<>>
  /\ logged' = ""
  /\ response' = ""
  /\ UNCHANGED <<risk, short_uuid, macd, sold_in_cycle>>
  /\ UNCHANGED <<positions, trades, orders, bots, regs, botStatus, runner, cp,
                 botRow, clock>>

\* the wall clock is read at another time of the day, on a day with or
\* without daylight saving time
ClockAdvance(utc, dst) ==
  /\ clock # [utc |-> utc, dst |-> dst]
  /\ clock' = [utc |-> utc, dst |-> dst]
  /\ events' = <<>>
  /\ logged' = ""
  /\ response' = ""
  /\ UNCHANGED <<risk, short_uuid, macd, sold_in_cycle>>
  /\ UNCHANGED <<positions, trades, orders, bots, regs, botStatus, runner, rec, cp,
                 botRow, engine>>

\* ------------------------------------------------------------------------
\* Specification
\* ------------------------------------------------------------------------
Next ==
  \/ EngineStart
  \/ \E answer \in Clocks : StartMonitor(answer)
  \/ StartLoad
  \/ \E b \in Bots : StartRegister(b)
  \/ StartLoaded
  \/ StartReturn
  \/ \E answer \in Clocks : MonitorPoll(answer)
  \/ EngineStop
  \/ \E b \in Bots : StopUnregister(b)
  \/ StopMonitor
  \/ StopReturn
  \/ \E utc \in TimesOfDay, dst \in BOOLEAN : ClockAdvance(utc, dst)
  \/ \E b \in Bots : StartBot(b)
  \/ \E b \in Bots : RegisterInsert(b)
  \/ \E b \in Bots : RegisterFails(b)
  \/ \E b \in Bots : StopBot(b)
  \/ \E b \in Bots : PauseBot(b)
  \/ \E b \in Bots : ResumeBot(b)
  \/ \E r \in Runners : CycleSkip(r)
  \/ \E r \in Runners : LoopError(r)
  \/ \E r \in Runners : AutoStopOnError(r)
  \/ \E r \in Runners : CycleStart(r)
  \/ \E r \in Runners, p \in Prices \cup {0}, sub \in BOOLEAN : SltpStep(r, p, sub)
  \/ \E r \in Runners : SltpDone(r)
  \/ \E r \in Runners, sigs \in [Indicators -> Signals], p \in Prices \cup {0},
        sub \in BOOLEAN : ProcessSymbol(r, sigs, p, sub)
  \/ \E r \in Runners : BuyRecord(r)
  \/ \E r \in Runners : BuyPoll(r)
  \/ \E r \in Runners : BuyUpdate(r)
  \/ \E r \in Runners : SellPoll(r)
  \/ \E r \in Runners : SellUpdate(r)
  \/ \E r \in Runners : WaitForFillFails(r)
  \/ \E o \in 1..Len(orders) : BrokerAck(o)
  \/ \E o \in 1..Len(orders), p \in FillPrices : BrokerPartialFill(o, p)
  \/ \E o \in 1..Len(orders), p \in FillPrices : BrokerFill(o, p)
  \/ \E o \in 1..Len(orders), st \in BrokerEnds : BrokerEnd(o, st)
  \/ TimePasses
  \/ RecLoad
  \/ \E got \in BOOLEAN, cancelled \in BOOLEAN : RecResolve(got, cancelled)
  \/ \E fetched \in BOOLEAN, p \in Prices : RecFetch(fetched, p)
  \/ RecSum
  \/ RecRepair
  \/ \E pid \in 1..Len(positions), pause_bot \in BOOLEAN, sub \in BOOLEAN :
        ClosePositionSubmit(pid, pause_bot, sub)
  \/ \E got \in BOOLEAN : ClosePositionFinish(got)

Spec == Init /\ [][Next]_vars

\* ------------------------------------------------------------------------
\* Environments: the same actions, driven by fewer inputs
\* ------------------------------------------------------------------------
\* the state start() returns in when no bot is 'running' and the market is
\* open: the lifespan begins to serve requests
Serving ==
  /\ InitStore
  /\ engine = [NewEngine EXCEPT !.running = TRUE, !.market_is_open = TRUE,
                                !.previous_is_open = TRUE, !.monitor = 1,
                                !.reconciler = 1]

\* the bots the user operates in the trading environments
Traders == {"b1"}

\* one start request for a bot that is stopped and has no runner
StartOnce(b) ==
  /\ regs[b] = 0
  /\ bots[b] = NoRunner
  /\ botStatus[b] = "stopped"
  /\ StartBot(b)

\* signals of a bot whose only configured indicator is the first one
OneIndicatorSignals ==
  {[i \in Indicators |-> IF i = IndicatorList[1] THEN s ELSE "hold"] : s \in Signals}

\* the same bot while its indicator gives no SELL
EntrySignals == {sigs \in OneIndicatorSignals : sigs[IndicatorList[1]] # "sell"}

\* the quote while the market does not move
SteadyQuote == {PriceA}

\* One running bot, the broker, the Reconciler and close_position requests;
\* every broker and store call answers.
NextTrade ==
  \/ \E b \in Traders : StartOnce(b)
  \/ \E b \in Traders : RegisterInsert(b)
  \/ \E r \in Runners : CycleStart(r)
  \/ \E r \in Runners, p \in Prices : SltpStep(r, p, TRUE)
  \/ \E r \in Runners : SltpDone(r)
  \/ \E r \in Runners, sigs \in OneIndicatorSignals, p \in Prices :
        ProcessSymbol(r, sigs, p, TRUE)
  \/ \E r \in Runners : BuyRecord(r)
  \/ \E r \in Runners : BuyPoll(r)
  \/ \E r \in Runners : BuyUpdate(r)
  \/ \E r \in Runners : SellPoll(r)
  \/ \E r \in Runners : SellUpdate(r)
  \/ \E o \in 1..Len(orders) : BrokerAck(o)
  \/ \E o \in 1..Len(orders), p \in FillPrices : BrokerFill(o, p)
  \/ \E o \in 1..Len(orders) : BrokerEnd(o, "rejected")
  \/ TimePasses
  \/ RecLoad
  \/ RecResolve(TRUE, TRUE)
  \/ \E p \in Prices : RecFetch(TRUE, p)
  \/ RecSum
  \/ RecRepair
  \/ \E pid \in 1..Len(positions) : ClosePositionSubmit(pid, FALSE, TRUE)
  \/ ClosePositionFinish(TRUE)

SpecTrade == Serving /\ [][NextTrade]_vars

\* Concurrent start and stop requests for the bot, its runners buying and
\* the broker; the market does not move.
NextRegistry ==
  \/ \E b \in Traders : StartBot(b)
  \/ \E b \in Traders : RegisterInsert(b)
  \/ \E b \in Traders : StopBot(b)
  \/ \E r \in Runners : CycleStart(r)
  \/ \E r \in Runners, p \in SteadyQuote : SltpStep(r, p, TRUE)
  \/ \E r \in Runners : SltpDone(r)
  \/ \E r \in Runners, sigs \in EntrySignals, p \in SteadyQuote :
        ProcessSymbol(r, sigs, p, TRUE)
  \/ \E r \in Runners : BuyRecord(r)
  \/ \E r \in Runners : BuyPoll(r)
  \/ \E r \in Runners : BuyUpdate(r)
  \/ \E o \in 1..Len(orders) : BrokerAck(o)
  \/ \E o \in 1..Len(orders), p \in SteadyQuote : BrokerFill(o, p)
  \/ \E o \in 1..Len(orders) : BrokerEnd(o, "rejected")

SpecRegistry == Serving /\ [][NextRegistry]_vars

\* Start and stop requests one after the other: the bot has one runner at a
\* time, and stop_bot cancels it wherever its task is suspended.
NextCancel ==
  \/ \E b \in Traders : StartOnce(b)
  \/ \E b \in Traders : RegisterInsert(b)
  \/ \E b \in Traders : StopBot(b)
  \/ \E r \in Runners : CycleStart(r)
  \/ \E r \in Runners, p \in SteadyQuote : SltpStep(r, p, TRUE)
  \/ \E r \in Runners : SltpDone(r)
  \/ \E r \in Runners, sigs \in EntrySignals, p \in SteadyQuote :
        ProcessSymbol(r, sigs, p, TRUE)
  \/ \E r \in Runners : BuyRecord(r)
  \/ \E r \in Runners : BuyPoll(r)
  \/ \E r \in Runners : BuyUpdate(r)
  \/ \E o \in 1..Len(orders) : BrokerAck(o)
  \/ \E o \in 1..Len(orders), p \in SteadyQuote : BrokerFill(o, p)
  \/ \E o \in 1..Len(orders) : BrokerEnd(o, "rejected")
  \/ RecLoad
  \/ RecResolve(TRUE, TRUE)
  \/ \E p \in SteadyQuote : RecFetch(TRUE, p)
  \/ RecSum
  \/ RecRepair

SpecCancel == Serving /\ [][NextCancel]_vars

\* One running bot buying, the broker, the clock and the Reconciler, with the
\* scheduling the engine gives them: the runner's task is resumed whenever it
\* can go on, _reconciliation_loop starts pass after pass and each pass runs
\* to its end, and time goes by.  The broker is free to leave an order
\* pending for ever.
NextFair ==
  \/ \E b \in Traders : StartOnce(b)
  \/ \E b \in Traders : RegisterInsert(b)
  \/ \E r \in Runners : CycleStart(r)
  \/ \E r \in Runners, p \in SteadyQuote : SltpStep(r, p, TRUE)
  \/ \E r \in Runners : SltpDone(r)
  \/ \E r \in Runners, sigs \in EntrySignals, p \in SteadyQuote :
        ProcessSymbol(r, sigs, p, TRUE)
  \/ \E r \in Runners : BuyRecord(r)
  \/ \E r \in Runners : BuyPoll(r)
  \/ \E r \in Runners : BuyUpdate(r)
  \/ \E o \in 1..Len(orders) : BrokerAck(o)
  \/ \E o \in 1..Len(orders), p \in SteadyQuote : BrokerFill(o, p)
  \/ \E o \in 1..Len(orders) : BrokerEnd(o, "rejected")
  \/ TimePasses
  \/ RecLoad
  \/ RecResolve(TRUE, TRUE)
  \/ \E p \in SteadyQuote : RecFetch(TRUE, p)
  \/ RecSum
  \/ RecRepair

Fairness ==
  /\ WF_vars(\E r \in Runners : BuyRecord(r))
  /\ WF_vars(\E r \in Runners : BuyPoll(r))
  /\ WF_vars(\E r \in Runners : BuyUpdate(r))
  /\ WF_vars(TimePasses)
  /\ WF_vars(RecLoad)
  /\ WF_vars(RecResolve(TRUE, TRUE))
  /\ WF_vars(\E p \in SteadyQuote : RecFetch(TRUE, p))
  /\ WF_vars(RecSum)
  /\ WF_vars(RecRepair)

SpecFair == Serving /\ [][NextFair]_vars /\ Fairness

\* evaluate_per_indicator: a signal for each indicator that had the data to
\* be evaluated, the others left out
PerIndicatorSignals == UNION {[D -> Signals] : D \in SUBSET Indicators}

\* get_latest_price: the quote, or 0 when it could not be had
Quotes == {0, PriceA}

\* One running bot whose indicators give every combination of signals, or
\* none; the quote and the submission may fail; the broker fills.
NextSignals ==
  \/ \E b \in Traders : StartOnce(b)
  \/ \E b \in Traders : RegisterInsert(b)
  \/ \E r \in Runners : CycleStart(r)
  \/ \E r \in Runners, p \in SteadyQuote : SltpStep(r, p, TRUE)
  \/ \E r \in Runners : SltpDone(r)
  \/ \E r \in Runners, sigs \in PerIndicatorSignals, p \in Quotes, sub \in BOOLEAN :
        ProcessSymbol(r, sigs, p, sub)
  \/ \E r \in Runners : BuyRecord(r)
  \/ \E r \in Runners : BuyPoll(r)
  \/ \E r \in Runners : BuyUpdate(r)
  \/ \E r \in Runners : SellPoll(r)
  \/ \E r \in Runners : SellUpdate(r)
  \/ \E r \in Runners : WaitForFillFails(r)
  \/ \E o \in 1..Len(orders), p \in SteadyQuote : BrokerFill(o, p)

SpecSignals == Serving /\ [][NextSignals]_vars

\* requests are served between the return of start() and the call of stop()
Served ==
  /\ engine.running
  /\ engine.start_pc = "none"
  /\ engine.stop_pc = "none"

\* One bot whose cycles are skipped, fail or run, while the clock goes on,
\* the market opens and closes and the user pauses and resumes the bot; the
\* broker refuses some submissions.
NextCycle ==
  \/ \E b \in Traders : StartOnce(b)
  \/ \E b \in Traders : RegisterInsert(b)
  \/ \E b \in Traders : PauseBot(b)
  \/ \E b \in Traders : ResumeBot(b)
  \/ \E answer \in Clocks : MonitorPoll(answer)
  \/ \E utc \in TimesOfDay, dst \in BOOLEAN : ClockAdvance(utc, dst)
  \/ \E r \in Runners : CycleSkip(r)
  \/ \E r \in Runners : LoopError(r)
  \/ \E r \in Runners : AutoStopOnError(r)
  \/ \E r \in Runners : CycleStart(r)
  \/ \E r \in Runners, p \in Prices, sub \in BOOLEAN : SltpStep(r, p, sub)
  \/ \E r \in Runners : SltpDone(r)
  \/ \E r \in Runners, sigs \in EntrySignals, p \in SteadyQuote, sub \in BOOLEAN :
        ProcessSymbol(r, sigs, p, sub)
  \/ \E r \in Runners : BuyRecord(r)
  \/ \E r \in Runners : BuyPoll(r)
  \/ \E r \in Runners : BuyUpdate(r)
  \/ \E r \in Runners : SellPoll(r)
  \/ \E r \in Runners : SellUpdate(r)
  \/ \E r \in Runners : WaitForFillFails(r)
  \/ \E o \in 1..Len(orders), p \in SteadyQuote : BrokerFill(o, p)

SpecCycle == Serving /\ [][NextCycle]_vars

\* The life of the engine: start() and stop() called at any time, requests
\* to start and stop the bots while it serves, some register_bot calls
\* failing, the runners asleep or skipping their cycles, the startup pass
\* of the Reconciler.
NextEngine ==
  \/ EngineStart
  \/ \E answer \in Clocks : StartMonitor(answer)
  \/ StartLoad
  \/ \E b \in Bots : StartRegister(b)
  \/ StartLoaded
  \/ StartReturn
  \/ EngineStop
  \/ \E b \in Bots : StopUnregister(b)
  \/ StopMonitor
  \/ StopReturn
  \/ \E b \in Bots : Served /\ StartBot(b)
  \/ \E b \in Bots : Served /\ StopBot(b)
  \/ \E b \in Bots : RegisterInsert(b)
  \/ \E b \in Bots : RegisterFails(b)
  \/ \E r \in Runners : CycleSkip(r)
  \/ engine.start_pc = "reconcile" /\ RecLoad
  \/ \E p \in SteadyQuote : RecFetch(TRUE, p)
  \/ RecSum
  \/ RecRepair

SpecEngine == Init /\ [][NextEngine]_vars

\* the bot of little capital is the one the user operates
RiskTraders == Bots \ Traders

\* One running bot held back by its risk rules: a share at the higher quote
\* costs more than its capital, and one losing trade uses up its daily loss
\* limit.  The submission may fail; the broker fills at either price.
NextRisk ==
  \/ \E b \in RiskTraders : StartOnce(b)
  \/ \E b \in RiskTraders : RegisterInsert(b)
  \/ \E r \in Runners : CycleStart(r)
  \/ \E r \in Runners, p \in Prices : SltpStep(r, p, TRUE)
  \/ \E r \in Runners : SltpDone(r)
  \/ \E r \in Runners, sigs \in OneIndicatorSignals, p \in Prices, sub \in BOOLEAN :
        ProcessSymbol(r, sigs, p, sub)
  \/ \E r \in Runners : BuyRecord(r)
  \/ \E r \in Runners : BuyPoll(r)
  \/ \E r \in Runners : BuyUpdate(r)
  \/ \E r \in Runners : SellPoll(r)
  \/ \E r \in Runners : SellUpdate(r)
  \/ \E o \in 1..Len(orders), p \in FillPrices : BrokerFill(o, p)

SpecRisk == Serving /\ [][NextRisk]_vars

\* the RiskCheckResult of a call that gave reason ("" for None)
RiskCall(bot_config, current_price, today_pnl, open_position_count, reason) ==
  [called |-> TRUE, bot_config |-> bot_config, current_price |-> current_price,
   today_pnl |-> today_pnl, open_position_count |-> open_position_count,
   allowed |-> reason = "", reason |-> reason]

\* RiskManager.validate called by itself for a BUY
Validate(bot_config, current_price, today_pnl, open_position_count) ==
  /\ risk' = RiskCall(bot_config, current_price, today_pnl, open_position_count,
                       validate_reason(bot_config, current_price, today_pnl,
                                       open_position_count))
  /\ events' = <<>>
  /\ logged' = ""
  /\ UNCHANGED <<positions, trades, orders, bots, regs, botStatus, runner, rec, cp>>
  /\ response' = ""
  /\ UNCHANGED <<botRow, engine, clock, short_uuid, macd, sold_in_cycle>>

\* the arguments validate is called with: capitals of 100 and 1000 dollars,
\* limits in whole percents, none (0) or some; prices, losses of the day and
\* open positions at the limits these give, and off them
RiskCapitals == {100 * Tick, 1000 * Tick}
RiskPercents == {29, 100}
RiskLossPercents == {0, 29}
RiskMaxPositions == {0, 1}
RiskConfigs ==
  {[BotConfig EXCEPT !.capital = c,
                     !.risk_management =
                        [max_position_size |-> p, stop_loss |-> 5, take_profit |-> 5,
                         max_daily_loss |-> l, max_concurrent_positions |-> n]] :
     c \in RiskCapitals, p \in RiskPercents, l \in RiskLossPercents,
     n \in RiskMaxPositions}
RiskPrices == {29 * Tick, 29 * Tick + 100, 100 * Tick, 290 * Tick, 1000 * Tick}
RiskPnls == {0, 0 - 29 * Tick, 0 - (29 * Tick + 100), 0 - 290 * Tick}
RiskCounts == {0, 1}

\* one call of validate, with any of the arguments
NextValidate ==
  \E bot_config \in RiskConfigs, current_price \in RiskPrices, today_pnl \in RiskPnls,
     open_position_count \in RiskCounts :
    ~risk.called /\ Validate(bot_config, current_price, today_pnl, open_position_count)

SpecValidate == Init /\ [][NextValidate]_vars

\* uuid.uuid4: the random source gives the digits of the next UUID
Uuid4(u) ==
  /\ short_uuid' = u
  /\ UNCHANGED <<positions, trades, orders, bots, regs, botStatus, runner, rec, cp,
                 events, botRow, engine, clock, logged, risk, response, macd, sold_in_cycle>>

\* Trade.client_order_id: the coid its order was submitted with
TradeClientOrderId(t) == orders[t.order_id].client_order_id

\* One running bot buying and selling at a steady quote, close_position
\* requests, and the random source of the order ids.
NextIds ==
  \/ \E b \in Traders : StartOnce(b)
  \/ \E b \in Traders : RegisterInsert(b)
  \/ \E r \in Runners : CycleStart(r)
  \/ \E r \in Runners, p \in SteadyQuote : SltpStep(r, p, TRUE)
  \/ \E r \in Runners : SltpDone(r)
  \/ \E r \in Runners, sigs \in OneIndicatorSignals, p \in SteadyQuote :
        ProcessSymbol(r, sigs, p, TRUE)
  \/ \E r \in Runners : BuyRecord(r)
  \/ \E r \in Runners : BuyPoll(r)
  \/ \E r \in Runners : BuyUpdate(r)
  \/ \E r \in Runners : SellPoll(r)
  \/ \E r \in Runners : SellUpdate(r)
  \/ \E o \in 1..Len(orders), p \in SteadyQuote : BrokerFill(o, p)
  \/ \E pid \in 1..Len(positions) : ClosePositionSubmit(pid, FALSE, TRUE)
  \/ ClosePositionFinish(TRUE)
  \/ \E u \in ShortUuids : Uuid4(u)

SpecIds == Serving /\ [][NextIds]_vars

\* One bot started, trading at a steady quote, stopped and deleted; the
\* requests are for a bot that exists.
NextDelete ==
  \/ \E b \in Traders : StartOnce(b)
  \/ \E b \in Traders : RegisterInsert(b)
  \/ \E b \in Traders : botStatus[b] # Deleted /\ StopBot(b)
  \/ \E b \in Traders : botStatus[b] # Deleted /\ DeleteBot(b)
  \/ \E r \in Runners : CycleStart(r)
  \/ \E r \in Runners, p \in SteadyQuote : SltpStep(r, p, TRUE)
  \/ \E r \in Runners : SltpDone(r)
  \/ \E r \in Runners, sigs \in OneIndicatorSignals, p \in SteadyQuote :
        ProcessSymbol(r, sigs, p, TRUE)
  \/ \E r \in Runners : BuyRecord(r)
  \/ \E r \in Runners : BuyPoll(r)
  \/ \E r \in Runners : BuyUpdate(r)
  \/ \E r \in Runners : SellPoll(r)
  \/ \E r \in Runners : SellUpdate(r)
  \/ \E o \in 1..Len(orders), p \in SteadyQuote : BrokerFill(o, p)

SpecDelete == Serving /\ [][NextDelete]_vars

\* One bot trading through its owner's client while no default client is
\* configured, and close_position requests.
NextClose ==
  \/ \E b \in Traders : StartOnce(b)
  \/ \E b \in Traders : RegisterInsert(b)
  \/ \E r \in Runners : CycleStart(r)
  \/ \E r \in Runners, p \in SteadyQuote : SltpStep(r, p, TRUE)
  \/ \E r \in Runners : SltpDone(r)
  \/ \E r \in Runners, sigs \in EntrySignals, p \in SteadyQuote :
        ProcessSymbol(r, sigs, p, TRUE)
  \/ \E r \in Runners : BuyRecord(r)
  \/ \E r \in Runners : BuyPoll(r)
  \/ \E r \in Runners : BuyUpdate(r)
  \/ \E o \in 1..Len(orders), p \in SteadyQuote : BrokerFill(o, p)
  \/ \E pid \in 1..Len(positions) : ClosePositionRefused(pid)
  \/ \E pid \in 1..Len(positions), pause_bot \in BOOLEAN :
        ClosePositionNoClient(pid, pause_bot)

SpecClose == Serving /\ [][NextClose]_vars

\* The engine started and stopped while its market monitor polls a clock
\* that answers, fails, or has no client to ask.
NextMonitor ==
  \/ EngineStart
  \/ \E answer \in Clocks : StartMonitor(answer)
  \/ StartLoad
  \/ \E b \in Bots : StartRegister(b)
  \/ StartLoaded
  \/ StartReturn
  \/ \E answer \in Clocks : MonitorPoll(answer)
  \/ EngineStop
  \/ \E b \in Bots : StopUnregister(b)
  \/ StopMonitor
  \/ StopReturn
  \/ \E b \in Bots : Served /\ StartBot(b)
  \/ \E b \in Bots : Served /\ StopBot(b)
  \/ \E b \in Bots : RegisterInsert(b)
  \/ engine.start_pc = "reconcile" /\ RecLoad
  \/ \E p \in SteadyQuote : RecFetch(TRUE, p)
  \/ RecSum
  \/ RecRepair

SpecMonitor == Init /\ [][NextMonitor]_vars

\* One bot trading at a steady quote while the broker acknowledges, fills or
\* ends its orders, time goes by, and the Reconciler runs its passes; get_order
\* and cancel_order answer or raise.
NextResolve ==
  \/ \E b \in Traders : StartOnce(b)
  \/ \E b \in Traders : RegisterInsert(b)
  \/ \E r \in Runners : CycleStart(r)
  \/ \E r \in Runners, p \in SteadyQuote : SltpStep(r, p, TRUE)
  \/ \E r \in Runners : SltpDone(r)
  \/ \E r \in Runners, sigs \in OneIndicatorSignals, p \in SteadyQuote :
        ProcessSymbol(r, sigs, p, TRUE)
  \/ \E r \in Runners : BuyRecord(r)
  \/ \E r \in Runners : BuyPoll(r)
  \/ \E r \in Runners : BuyUpdate(r)
  \/ \E r \in Runners : SellPoll(r)
  \/ \E r \in Runners : SellUpdate(r)
  \/ \E o \in 1..Len(orders) : BrokerAck(o)
  \/ \E o \in 1..Len(orders), p \in FillPrices : BrokerFill(o, p)
  \/ \E o \in 1..Len(orders), st \in NonFill : BrokerEnd(o, st)
  \/ TimePasses
  \/ RecLoad
  \/ \E got \in BOOLEAN, cancelled \in BOOLEAN : RecResolve(got, cancelled)
  \/ \E p \in SteadyQuote : RecFetch(TRUE, p)
  \/ RecSum
  \/ RecRepair

SpecResolve == Serving /\ [][NextResolve]_vars

\* The two bots of the user buying the same symbols at a steady quote while
\* the broker fills their orders and the Reconciler runs its passes.
NextRepair ==
  \/ \E b \in Bots : StartOnce(b)
  \/ \E b \in Bots : RegisterInsert(b)
  \/ \E r \in Runners : CycleStart(r)
  \/ \E r \in Runners, p \in SteadyQuote : SltpStep(r, p, TRUE)
  \/ \E r \in Runners : SltpDone(r)
  \/ \E r \in Runners, sigs \in EntrySignals, p \in SteadyQuote :
        ProcessSymbol(r, sigs, p, TRUE)
  \/ \E r \in Runners : BuyRecord(r)
  \/ \E r \in Runners : BuyPoll(r)
  \/ \E r \in Runners : BuyUpdate(r)
  \/ \E o \in 1..Len(orders), p \in SteadyQuote : BrokerFill(o, p)
  \/ RecLoad
  \/ RecResolve(TRUE, TRUE)
  \/ \E p \in SteadyQuote : RecFetch(TRUE, p)
  \/ RecSum
  \/ RecRepair

SpecRepair == Serving /\ [][NextRepair]_vars

\* a share quoted at nine cents, and at ten
PennyPrice == 900
PennyQuotes == {PennyPrice, PennyPrice + 100}

\* One bot trading a symbol quoted at a few cents, for which the stop-loss
\* and the take-profit price round to the same cent.
NextPenny ==
  \/ \E b \in Traders : StartOnce(b)
  \/ \E b \in Traders : RegisterInsert(b)
  \/ \E r \in Runners : CycleStart(r)
  \/ \E r \in Runners, p \in PennyQuotes, sub \in BOOLEAN : SltpStep(r, p, sub)
  \/ \E r \in Runners : SltpDone(r)
  \/ \E r \in Runners, sigs \in EntrySignals, p \in PennyQuotes :
        ProcessSymbol(r, sigs, p, TRUE)
  \/ \E r \in Runners : BuyRecord(r)
  \/ \E r \in Runners : BuyPoll(r)
  \/ \E r \in Runners : BuyUpdate(r)
  \/ \E r \in Runners : SellPoll(r)
  \/ \E r \in Runners : SellUpdate(r)
  \/ \E o \in 1..Len(orders), p \in PennyQuotes : BrokerFill(o, p)

SpecPenny == Serving /\ [][NextPenny]_vars

\* the threshold of _eval_macd, 0.01, in the unit of the histogram: the
\* indicator rounds it to four decimals
MacdThreshold == 100

\* SignalGenerator._eval_macd; values holds histogram and prev_histogram
eval_macd(histogram, prev_histogram) ==
  IF histogram = None THEN "hold"
  ELSE IF histogram > MacdThreshold THEN "buy"
  ELSE IF histogram < 0 - MacdThreshold THEN "sell"
  ELSE "hold"

\* the histograms the evaluator is given: none, and values at the threshold,
\* next to it and far from it
Histograms == {None, 0 - 5000, 0 - 3000, 0 - 101, 0 - 100, 0, 50, 100, 101, 3000, 5000}

\* one call of _eval_macd
EvalMacd(histogram, prev_histogram) ==
  /\ macd' = [called |-> TRUE, histogram |-> histogram,
              prev_histogram |-> prev_histogram,
              signal |-> eval_macd(histogram, prev_histogram)]
  /\ UNCHANGED <<positions, trades, orders, bots, regs, botStatus, runner, rec, cp,
                 events, botRow, engine, clock, logged, risk, short_uuid, response,
                 sold_in_cycle>>

\* The evaluator called with every pair of histograms.
NextMacd == \E histogram \in Histograms, prev_histogram \in Histograms :
              EvalMacd(histogram, prev_histogram)

SpecMacd == Init /\ [][NextMacd]_vars

\* ------------------------------------------------------------------------
\* Properties
\* ------------------------------------------------------------------------
\* C1: while a BUY order submitted for (bot, symbol) is still pending at the
\* broker (neither filled nor canceled, rejected or expired), no second BUY
\* order is submitted for that (bot, symbol).  Orders only leave the pending
\* statuses, so an earlier BUY order that is pending now was pending when
\* every later order was submitted.
C1_NoSecondBuyWhilePending ==
  \A i, j \in 1..Len(orders) :
    (/\ i < j
     /\ orders[i].side = "buy" /\ orders[j].side = "buy"
     /\ BotOfOrder(orders[i].client_order_id) = BotOfOrder(orders[j].client_order_id)
     /\ orders[i].symbol = orders[j].symbol)
    => orders[i].status \notin NonTerminal

\* C2: in every reachable state every (bot, symbol) has at most one Position
\* with is_open = true.
C2_AtMostOneOpenPosition ==
  \A b \in Bots, s \in Symbols : Cardinality(OpenIds(b, s)) <= 1

\* C3: when a cycle of a bot is processing symbols, every BUY order the broker
\* accepted for the bot in an earlier _execute_buy has its Trade, carrying the
\* order id, in the store.  (A runner that processes symbols holds no order
\* of its own: its locals are those of a cycle that has submitted nothing.)
C3_RecordsBeforeNextCycle ==
  \A r \in Runners :
    runner[r].pc = "proc" =>
      \A o \in 1..Len(orders) :
        (orders[o].side = "buy" /\ BotOfOrder(orders[o].client_order_id) = runner[r].bot_id)
        => \E t \in 1..Len(trades) : trades[t].order_id = o

\* C4: no BUY order the broker accepted is left without a local record: it
\* has a Trade carrying its order id, or the runner that submitted it is
\* still on its way to insert that Trade.
C4_NoOrderWithoutRecord ==
  \A o \in 1..Len(orders) :
    orders[o].side = "buy" =>
      \/ \E t \in 1..Len(trades) : trades[t].order_id = o
      \/ \E r \in Runners : runner[r].pc = "buy_record" /\ runner[r].order = o

\* C5 (liveness): every BUY Trade that _execute_buy leaves with a
\* non-terminal status when fill polling has given up is eventually moved to
\* a terminal status (filled, canceled, rejected or expired), whatever the
\* broker reported at the last poll.
C5_UnresolvedBuyEventuallyTerminal ==
  \A t \in 1..MaxOrders :
    (/\ t <= Len(trades)
     /\ trades[t].type = "buy"
     /\ trades[t].status \in NonTerminal
     /\ \A r \in Runners : runner[r].trade_id # t)
    ~> (t <= Len(trades) /\ trades[t].status \in NonFill \cup {"filled"})

\* C6: at the commit of a position-drift pass, for every symbol the
\* quantities of the open local Positions sum to no more than the broker
\* quantity the pass fetched.
C6_LocalWithinBrokerAtCommit ==
  [][(rec.pc = "repair" /\ rec'.pc = "idle")
     => \A s \in Symbols : OpenQty(positions', s) <= AlpacaQty(rec.alpaca, s)]_vars

\* C7: a drift pass that finds a symbol with more shares at the broker than
\* in the open local Positions publishes a reconciliation_alert naming the
\* symbol, closes no local Position of that symbol and submits no order; no
\* step of the Reconciler adds an order at the broker.
C7_BrokerExcessAlertOnly ==
  [][/\ rec' # rec => Len(orders') = Len(orders)
     /\ (rec.pc = "repair" /\ rec'.pc = "idle") =>
          \A s \in Symbols :
            AlpacaQty(rec.alpaca, s) > DbQty(rec.db, s) =>
              /\ \E k \in 1..Len(events') :
                   /\ events'[k].name = "reconciliation_alert"
                   /\ [type |-> "excess_in_alpaca", symbol |-> s] \in events'[k].payload
              /\ \A i \in 1..Len(positions) :
                   (positions[i].symbol = s /\ positions[i].is_open)
                   => positions'[i].is_open]_vars

\* C8: when _execute_sell comes back from fill polling with anything but a
\* fill (canceled, rejected, expired, or an order still pending), it leaves
\* every Trade and Position record as it is, so the Position stays open.
C8_SellRecordsOnlyOnFill ==
  [][\A r \in Runners :
       (/\ runner[r].pc = "sell_update"
        /\ runner'[r].pc # "sell_update"
        /\ runner[r].ostatus.status # "filled")
       => (positions' = positions /\ trades' = trades)]_vars

\* C9: when _execute_sell comes back from polling with a fill, the Position
\* it sold is afterwards closed, with closed_at set, unrealized_pnl = 0 and
\* realized_pnl = round((fill price - entry_price) * quantity, 2), and the
\* sell Trade it inserts carries that profit_loss and the fill price.
C9_FilledSellClosesWithPnl ==
  [][\A r \in Runners :
       (/\ runner[r].pc = "sell_update"
        /\ runner'[r].pc # "sell_update"
        /\ runner[r].ostatus.status = "filled")
       => LET fill == runner[r].ostatus.filled_avg_price
              q == positions'[runner[r].pos.id]
              t == trades'[Len(trades')]
          IN  /\ ~q.is_open
              /\ q.closed_at
              /\ q.unrealized_pnl = 0
              /\ q.realized_pnl = Round2((fill - q.entry_price) * q.quantity)
              /\ t.type = "sell"
              /\ t.order_id = runner[r].order
              /\ t.profit_loss = q.realized_pnl
              /\ t.price = fill]_vars

C11_NonFillCleansUp ==
  [][\A r \in Runners :
       (/\ runner[r].pc = "buy_update"
        /\ runner'[r].pc # "buy_update"
        /\ runner'[r].bot_id = runner[r].bot_id
        /\ runner[r].ostatus.status \in NonFill)
       => LET t == runner[r].trade_id
              p == runner[r].position_id
              b == runner[r].bot_id
              s == positions[p].symbol
          IN  /\ trades'[t].status = runner[r].ostatus.status
              /\ ~positions'[p].is_open
              /\ positions'[p].closed_at
              /\ (OpenIds(b, s) \subseteq {p}
                    => \A i \in 1..Len(positions') :
                          ~(positions'[i].bot_id = b /\ positions'[i].symbol = s
                            /\ positions'[i].is_open))]_vars

\* a BUY the broker rejected while it was polled: the runner is back in its
\* cycle, the Trade is 'rejected', the Position closed and the symbol free
C11_Witness ==
  \E r \in Runners, t \in 1..Len(trades), p \in 1..Len(positions) :
    /\ runner[r].pc \in {"proc", "sleep"}
    /\ trades[t].type = "buy"
    /\ trades[t].bot_id = runner[r].bot_id
    /\ trades[t].status = "rejected"
    /\ ~trades[t].stale
    /\ orders[trades[t].order_id].status = "rejected"
    /\ positions[p].bot_id = runner[r].bot_id
    /\ ~positions[p].is_open
    /\ positions[p].closed_at
    /\ OpenIds(runner[r].bot_id, trades[t].symbol) = {}

C13_StepFailureCounts ==
  [][logged' \in {"process_symbol", "execute_buy", "execute_sell", "check_sltp"}
       => \E r \in Runners :
            /\ runner'[r] # runner[r]
            /\ runner'[r].consecutive_errors = runner[r].consecutive_errors + 1]_vars

\* C14: a bot never has more than one BotRunner whose cycle task is alive,
\* and a register_bot call for a bot that has a runner in the registry
\* starts no task.
C14_OneLiveRunnerPerBot ==
  /\ \A b \in Bots :
       Cardinality({r \in Runners : /\ runner[r].bot_id = b
                                    /\ runner[r].pc \notin {"none", "done"}}) <= 1

C16_NoRunnerBeforeStartupReconciliation ==
  [][(\/ engine.start_pc \in {"market", "load", "register", "reconcile"}
      \/ engine.start_pc = "reconciling" /\ rec.pc # "idle")
       => \A r \in Runners : runner[r].pc = "none" => runner'[r].pc = "none"]_vars

\* C17: when stop() returns the registry is empty, no runner has a live
\* cycle task, and the market monitor and the reconciler tasks are gone.
C17_StopJoinsEverything ==
  [][(engine.stop_pc = "reconciler" /\ engine'.stop_pc = "none")
       => /\ \A b \in Bots : bots'[b] = NoRunner
          /\ \A r \in Runners : runner'[r].pc \in {"none", "done"}
          /\ engine'.monitor = 0
          /\ engine'.reconciler = 0]_vars

\* C18: a start() called while the engine is running, the first start() still
\* awaiting or not, starts nothing: the engine keeps its one start() in
\* progress, or none, and gets no further market monitor or reconciler task,
\* and the call itself changes neither the engine nor the registrations nor
\* the Reconciler.
C18_StartIdempotent ==
  [][/\ engine.running
          => /\ ~(engine.start_pc # "market" /\ engine'.start_pc = "market")
             /\ engine'.monitor <= 1
             /\ engine'.reconciler <= 1
     /\ logged' = "already_running"
          => /\ engine.running
             /\ UNCHANGED <<engine, regs, bots, runner, rec>>]_vars

\* a second start() has returned at the guard while the first is awaiting
\* its load of the running bots
C18_Witness ==
  /\ logged = "already_running"
  /\ engine.start_pc = "register"
  /\ engine.monitor = 1

\* C19: a runner leaves its sleep for the stop-loss/take-profit check only
\* when it is not paused, the Eastern time of day (UTC-5, UTC-4 under
\* daylight saving time) is inside the bot's trading window and the cached
\* market status is open; while one of the three fails, the sleeping runner
\* submits no order, changes no Position and no Trade, leaves last_run_at
\* alone and does not reset its error counter.
C19_CycleOnlyInWindow ==
  [][\A r \in Runners :
       LET rr == runner[r]
           now_et == (clock.utc + 24 * 60 - (IF clock.dst THEN 4 ELSE 5) * 60)
                       % (24 * 60)
           in_window ==
             /\ BotConfig.start_hour * 60 + BotConfig.start_minute <= now_et
             /\ now_et <= BotConfig.end_hour * 60 + BotConfig.end_minute
           runs == ~rr.is_paused /\ in_window /\ engine.market_is_open
       IN  (rr.pc = "sleep" /\ rr.is_running)
             => /\ runner'[r].pc = "sltp" => runs
                /\ (~runs /\ \A q \in Runners : runner[q].pc \in {"none", "sleep"})
                     => /\ positions' = positions
                        /\ trades' = trades
                        /\ Len(orders') = Len(orders)
                        /\ botRow'[rr.bot_id].last_run_at
                             = botRow[rr.bot_id].last_run_at
                        /\ runner'[r].pc = "sleep"
                             => runner'[r].consecutive_errors
                                  >= rr.consecutive_errors]_vars

C21_BuyOnFirstBuyIndicator ==
  [][/\ \A r \in Runners, sigs \in PerIndicatorSignals, p \in Quotes, sub \in BOOLEAN :
          LET ids == OpenIds(runner[r].bot_id, SymbolList[runner[r].symidx])
              says_buy(k) == /\ IndicatorList[k] \in DOMAIN sigs
                             /\ sigs[IndicatorList[k]] = "buy"
              submitted == Len(orders') = Len(orders) + 1
          IN  (ProcessSymbol(r, sigs, p, sub) /\ ids = {})
                => /\ submitted
                     => /\ orders'[Len(orders')].side = "buy"
                        /\ \E k \in 1..Len(IndicatorList) :
                             /\ says_buy(k)
                             /\ \A j \in 1..(k - 1) : ~says_buy(j)
                             /\ runner'[r].ind = IndicatorList[k]
                   /\ ~submitted => orders' = orders
                   /\ (\A k \in 1..Len(IndicatorList) : ~says_buy(k)) => ~submitted
     /\ \A r \in Runners :
          (runner[r].pc = "buy_record" /\ runner'[r].pc = "buy_wait")
            => /\ Len(positions') = Len(positions) + 1
               /\ positions'[Len(positions')].entry_indicator = runner[r].ind
               /\ positions'[Len(positions')].is_open
               /\ trades'[Len(trades')].reason = <<runner[r].ind, "buy signal">>]_vars

\* a Position entered on the second indicator is recorded: the first
\* indicator did not say BUY, the second did
C21_Witness ==
  \E r \in Runners :
    /\ runner[r].pc = "buy_wait"
    /\ positions[runner[r].position_id].is_open
    /\ positions[runner[r].position_id].entry_indicator = IndicatorList[2]
    /\ orders[runner[r].order].side = "buy"

\* the Risk Manager's rules as the specification words them, in exact
\* arithmetic: the price is above the capital or above capital x
\* max_position_size %, today's loss is above capital x max_daily_loss %, or
\* the open positions have reached max_concurrent_positions
RuleRefuses(bot_config, current_price, today_pnl, open_position_count) ==
  LET capital == bot_config.capital
      rc == bot_config.risk_management
  IN  \/ current_price > capital
      \/ current_price * 100 > capital * rc.max_position_size
      \/ rc.max_daily_loss > 0 /\ today_pnl * 100 < 0 - capital * rc.max_daily_loss
      \/ rc.max_concurrent_positions > 0
         /\ open_position_count >= rc.max_concurrent_positions

\* C22: when the Risk Manager refuses a proposed BUY (the symbol has no open
\* position, an indicator says BUY, the quote is there, and a rule refuses),
\* the BotRunner's step submits no order, not even one the broker turns
\* down, and neither this step nor a later one of that proposal inserts a
\* Trade or a Position: the runner does not go on to the pending records.
C22_RefusedBuySubmitsNothing ==
  [][\A r \in Runners, sigs \in OneIndicatorSignals, p \in Prices, sub \in BOOLEAN :
       (/\ ProcessSymbol(r, sigs, p, sub)
        /\ OpenIds(runner[r].bot_id, SymbolList[runner[r].symidx]) = {}
        /\ FirstBuy(sigs, 1) # ""
        /\ RuleRefuses(ConfigOf(runner[r].bot_id), p, get_bot_today_pnl(runner[r].bot_id),
                       Cardinality(OpenIdsOfBot(runner[r].bot_id))))
       => /\ orders' = orders
          /\ trades' = trades
          /\ positions' = positions
          /\ runner'[r].pc # "buy_record"
          /\ logged' # "execute_buy"]_vars

\* a cycle ended with the bot's loss of the day above its limit and nothing
\* bought: no open position, no pending Trade, no order beyond the losing
\* round trip
C22_Witness ==
  \E r \in Runners :
    /\ runner[r].pc = "sleep"
    /\ runner[r].bot_id \in RiskTraders
    /\ botRow[runner[r].bot_id].last_run_at # None
    /\ get_bot_today_pnl(runner[r].bot_id) * 100
          < 0 - ConfigOf(runner[r].bot_id).capital
                  * ConfigOf(runner[r].bot_id).risk_management.max_daily_loss
    /\ OpenIdsOfBot(runner[r].bot_id) = {}
    /\ \A i \in 1..Len(trades) : trades[i].status = "filled"

\* C23: the risk rules at their exact thresholds.  A BUY whose price equals
\* capital x max_position_size %, or made when today's P&L equals minus
\* capital x max_daily_loss %, or whose price equals the capital, is allowed
\* (no rule being exceeded otherwise); a BUY made when the open positions
\* equal max_concurrent_positions is refused.
C23_ExactThresholds ==
  risk.called =>
    LET capital == risk.bot_config.capital
        rc == risk.bot_config.risk_management
        at_limit ==
          \/ risk.current_price * 100 = capital * rc.max_position_size
          \/ rc.max_daily_loss > 0
             /\ risk.today_pnl * 100 = 0 - capital * rc.max_daily_loss
          \/ risk.current_price = capital
    IN  /\ (/\ at_limit
            /\ ~RuleRefuses(risk.bot_config, risk.current_price, risk.today_pnl,
                            risk.open_position_count))
           => risk.allowed
        /\ (/\ rc.max_concurrent_positions > 0
            /\ risk.open_position_count = rc.max_concurrent_positions)
           => ~risk.allowed

\* C24: in every reachable state no two Trade records carry the same
\* client_order_id: each order submission, by a BotRunner or by
\* close_position, gets an id unlike every id generated before.
C24_UniqueClientOrderIds ==
  \A i, j \in 1..Len(trades) :
    i # j => TradeClientOrderId(trades[i]) # TradeClientOrderId(trades[j])

\* C25: in every reachable state every Trade's status is one of new,
\* partially_filled, filled, canceled, expired, rejected, whichever path
\* wrote it.
C25_TradeStatusInSet ==
  \A t \in 1..Len(trades) :
    trades[t].status \in {"new", "partially_filled", "filled", "canceled", "expired",
                          "rejected"}

\* C26: every Position with is_open = false has a closed_at that is not
\* null, whichever component closed it, and a closed Position is never
\* reopened: is_open never goes from false to true.
C26_ClosedStaysClosed ==
  [][/\ \A p \in 1..Len(positions') :
          ~positions'[p].is_open => positions'[p].closed_at
     /\ \A p \in 1..Len(positions) :
          ~positions[p].is_open => ~positions'[p].is_open]_vars

\* a closed Position with its closed_at, and a later Position of the same
\* bot and symbol that is open
C26_Witness ==
  \E p, q \in 1..Len(positions) :
    /\ p < q
    /\ positions[p].bot_id = positions[q].bot_id
    /\ positions[p].symbol = positions[q].symbol
    /\ ~positions[p].is_open /\ positions[p].closed_at
    /\ positions[q].is_open

\* C27: a delete request for a Bot whose persisted status is 'running' is
\* refused with the conflict error BOT_RUNNING and leaves the Bot and its
\* Trades and Positions as they are.
C27_RunningBotNotDeleted ==
  [][\A b \in Bots :
       (DeleteBot(b) /\ botStatus[b] = "running")
       => /\ response' = "BOT_RUNNING"
          /\ botStatus' = botStatus
          /\ botRow' = botRow
          /\ trades' = trades
          /\ positions' = positions]_vars

\* the delete of a running bot that holds a Trade and a Position was refused
C27_Witness ==
  /\ response = "BOT_RUNNING"
  /\ \E b \in Bots :
       /\ botStatus[b] = "running"
       /\ \E t \in 1..Len(trades) : trades[t].bot_id = b
       /\ \E p \in 1..Len(positions) : positions[p].bot_id = b

\* C28: close_position closes a Position and records a sell Trade only if
\* the Position was open and the broker accepted the sell order (the Trade
\* carries the id of a sell order at the broker); on a Position closed
\* already it answers POSITION_ALREADY_CLOSED and submits nothing; when the
\* submission fails it answers with the external-service error and the
\* Position stays open, no Trade recorded.
C28_CloseOnlyThroughBroker ==
  [][/\ (/\ Len(trades') > Len(trades)
         /\ trades'[Len(trades')].reason = <<"Manual close">>)
        => /\ trades'[Len(trades')].order_id \in 1..Len(orders')
           /\ orders'[trades'[Len(trades')].order_id].side = "sell"
           /\ \E p \in 1..Len(positions) :
                positions[p].is_open /\ ~positions'[p].is_open
     /\ response' = "POSITION_ALREADY_CLOSED"
        => orders' = orders /\ positions' = positions /\ trades' = trades
     /\ response' = "ALPACA_ERROR"
        => positions' = positions /\ trades' = trades]_vars

\* C29: within one start() of the engine the market monitor emits
\* market_status_changed exactly when market_is_open after a poll differs
\* from its value after the poll before (at first the value start()
\* fetched), the event carrying the new value; it never emits two
\* consecutive events with the same is_open; and a poll whose get_clock
\* fails leaves market_is_open as it was and emits nothing.
C29_EventExactlyOnTransition ==
  [][\A answer \in Clocks :
       MonitorPoll(answer)
       => /\ IF engine'.market_is_open # engine.market_is_open
             THEN /\ events' = <<[name |-> "market_status_changed",
                                  payload |-> [is_open |-> engine'.market_is_open]]>>
                  /\ engine.emitted # EmittedStatus(engine'.market_is_open)
             ELSE events' = <<>>
          /\ answer = "failed"
               => engine'.market_is_open = engine.market_is_open /\ events' = <<>>]_vars

\* a poll found the market closed after start() had found it open, and the
\* monitor has sent the event with is_open false
C29_Witness ==
  /\ events = <<[name |-> "market_status_changed", payload |-> [is_open |-> FALSE]]>>
  /\ engine.emitted = "closed"
  /\ ~engine.market_is_open
  /\ engine.monitor = 1

\* C30: for a Trade the Reconciler loaded as pending whose get_order answered:
\* the order filled: the Trade becomes filled with the broker's price and
\* quantity, and an open Position of the bot and symbol takes them as entry
\* price and quantity; the order canceled, rejected or expired: the Trade
\* takes that status and an open Position of the bot and symbol is closed;
\* the order still transient: if the Trade is older than five minutes the
\* broker order is cancelled, the Trade marked canceled and the Position
\* closed, otherwise Trade, Position and order are left as they are.
C30_PendingTradeTransitions ==
  [][\A cancelled \in BOOLEAN :
       RecResolve(TRUE, cancelled)
       => LET t == Head(rec.queue).id
              o == Head(rec.queue).row.order_id
              ids == OpenIds(Head(rec.queue).row.bot_id, Head(rec.queue).row.symbol)
          IN  /\ orders[o].status = "filled"
                   => /\ trades'[t].status = "filled"
                      /\ trades'[t].price = orders[o].filled_avg_price
                      /\ trades'[t].quantity = orders[o].filled_qty
                      /\ ids # {}
                           => \E p \in ids :
                                /\ positions'[p].entry_price = orders[o].filled_avg_price
                                /\ positions'[p].quantity = orders[o].filled_qty
              /\ orders[o].status \in NonFill
                   => /\ trades'[t].status = orders[o].status
                      /\ ids # {} => \E p \in ids : ~positions'[p].is_open
              /\ (orders[o].status \in NonTerminal /\ trades[t].stale)
                   => /\ orders'[o].status = "canceled"
                      /\ trades'[t].status = "canceled"
                      /\ ids # {} => \E p \in ids : ~positions'[p].is_open
              /\ (orders[o].status \in NonTerminal /\ ~trades[t].stale)
                   => /\ trades' = trades
                      /\ positions' = positions
                      /\ orders' = orders]_vars

\* the positions of symbol s a step closes
ClosedNow(s) ==
  {i \in 1..Len(positions) :
     positions[i].symbol = s /\ positions[i].is_open /\ ~positions'[i].is_open}

\* One running bot with a default client configured: the stop-loss and
\* take-profit check and the exit path of the runner beside close_position
\* requests, which may arrive while the runner's sell order is out.
NextSell ==
  \/ \E b \in Traders : StartOnce(b)
  \/ \E b \in Traders : RegisterInsert(b)
  \/ \E r \in Runners : CycleStart(r)
  \/ \E r \in Runners, p \in Prices : SltpStep(r, p, TRUE)
  \/ \E r \in Runners : SltpDone(r)
  \/ \E r \in Runners, sigs \in OneIndicatorSignals, p \in SteadyQuote :
        ProcessSymbol(r, sigs, p, TRUE)
  \/ \E r \in Runners : BuyRecord(r)
  \/ \E r \in Runners : BuyPoll(r)
  \/ \E r \in Runners : BuyUpdate(r)
  \/ \E r \in Runners : SellPoll(r)
  \/ \E r \in Runners : SellUpdate(r)
  \/ \E o \in 1..Len(orders), p \in SteadyQuote : BrokerFill(o, p)
  \/ \E pid \in 1..Len(positions) :
        ClosePositionSubmitUpTo(MaxOrders + 1, pid, FALSE, TRUE)
  \/ ClosePositionFinish(TRUE)

SpecSell == Serving /\ [][NextSell]_vars


\* One running bot through whole cycles, the history of what the stop-loss and
\* take-profit check sold in the cycle kept; the per-symbol pipeline may
\* submit one order more than MaxOrders, so that a BUY, the SELL of the check
\* and a second BUY fit.
NextRebuy ==
  \/ \E b \in Traders : StartOnce(b)
  \/ \E b \in Traders : RegisterInsert(b)
  \/ \E r \in Runners : CycleStartTracked(r)
  \/ \E r \in Runners, p \in Prices : SltpStepTracked(r, p, TRUE)
  \/ \E r \in Runners : SltpDone(r)
  \/ \E r \in Runners, sigs \in OneIndicatorSignals, p \in Prices :
        ProcessSymbolUpTo(MaxOrders + 1, r, sigs, p, TRUE)
  \/ \E r \in Runners : BuyRecord(r)
  \/ \E r \in Runners : BuyPoll(r)
  \/ \E r \in Runners : BuyUpdate(r)
  \/ \E r \in Runners : SellPoll(r)
  \/ \E r \in Runners : SellUpdate(r)
  \/ \E o \in 1..Len(orders), p \in FillPrices : BrokerFill(o, p)

SpecRebuy == Serving /\ [][NextRebuy]_vars


\* C31: in reconcile_positions, for a symbol whose local open quantity exceeds
\* the broker's, the open Positions of the symbol are closed from the oldest,
\* each one whole: a Position is closed only if every older open Position of
\* the symbol is closed in the same pass, none is closed once the closed
\* quantity has reached the excess, and the closing goes on until it has or
\* no open Position is left; a symbol without such an excess has none closed.
C31_AutoCloseOldestFirst ==
  [][RecRepair
       => \A s \in Symbols :
            LET excess == DbQty(rec.db, s) - AlpacaQty(rec.alpaca, s)
                closed == ClosedNow(s)
                open == OpenIds("b1", s) \cup OpenIds("b2", s)
            IN  /\ excess <= 0 => closed = {}
                /\ \A i \in closed : \A j \in open : j < i => j \in closed
                /\ \A i \in closed :
                     SumSeq([k \in 1..Len(positions) |->
                               IF k \in closed /\ k < i THEN positions[k].quantity ELSE 0],
                            Len(positions)) < excess
                /\ \A i \in closed :
                     /\ positions'[i].closed_at
                     /\ positions'[i].quantity = positions[i].quantity
                /\ (excess > 0 /\ closed # open)
                     => SumSeq([k \in 1..Len(positions) |->
                                  IF k \in closed THEN positions[k].quantity ELSE 0],
                               Len(positions)) >= excess]_vars

\* a pass has closed the older of two Positions of a symbol and left the
\* younger one open, the broker holding the shares of one of them (nothing
\* but the pass closes a Position here)
C31_Witness ==
  /\ rec = IdleRec
  /\ \E i \in 1..Len(positions), j \in 1..Len(positions) :
       /\ i < j
       /\ positions[i].symbol = positions[j].symbol
       /\ ~positions[i].is_open
       /\ positions[j].is_open
       /\ BrokerQty(positions[i].symbol) = positions[i].quantity

\* C32: in the stop-loss/take-profit check with a positive latest price: a
\* Position at or below its stop_loss_price that is sold is sold with the
\* reason 'Stop-loss triggered', the take-profit reason being used only when
\* the stop-loss condition does not hold; a Position that triggers neither
\* stays open and has nothing but current_price and unrealized_pnl =
\* (price - entry_price) * quantity updated.
C32_StopLossBeforeTakeProfit ==
  [][\A r \in Runners, p \in Prices \cup PennyQuotes, sub \in BOOLEAN :
       SltpStep(r, p, sub)
       => LET pos == Head(runner[r].snap)
              sl == Truthy(pos.row.stop_loss_price) /\ p <= pos.row.stop_loss_price
              tp == Truthy(pos.row.take_profit_price) /\ p >= pos.row.take_profit_price
              sold == runner'[r].pc = "sell_wait"
          IN  /\ (sl /\ sold) => runner'[r].reason = <<"Stop-loss triggered">>
              /\ (sold /\ runner'[r].reason = <<"Take-profit triggered">>) => ~sl
              /\ sold => sl \/ tp
              /\ (~sl /\ ~tp)
                   => /\ orders' = orders
                      /\ positions' =
                           IF positions[pos.id].is_open
                           THEN [positions EXCEPT
                                   ![pos.id].current_price = p,
                                   ![pos.id].unrealized_pnl =
                                      Round2((p - pos.row.entry_price) * pos.row.quantity)]
                           ELSE positions]_vars

\* C33: the MACD evaluator signals only on a crossover: BUY only when the
\* histogram is above 0.01 and prev_histogram is at most 0, SELL only when
\* the histogram is below -0.01 and prev_histogram is at least 0, and HOLD
\* when prev_histogram is missing or has the sign of the histogram.
C33_MacdOnlyOnCrossover ==
  macd.called
    => /\ macd.signal = "buy"
            => /\ macd.histogram > MacdThreshold
               /\ macd.prev_histogram # None
               /\ macd.prev_histogram <= 0
       /\ macd.signal = "sell"
            => /\ macd.histogram # None
               /\ macd.histogram < 0 - MacdThreshold
               /\ macd.prev_histogram # None
               /\ macd.prev_histogram >= 0
       /\ macd.prev_histogram = None => macd.signal = "hold"
       /\ (/\ macd.histogram # None
           /\ macd.prev_histogram # None
           /\ \/ macd.histogram > 0 /\ macd.prev_histogram > 0
              \/ macd.histogram < 0 /\ macd.prev_histogram < 0)
            => macd.signal = "hold"

\* C34: when a start or resume request completes and leaves the persisted
\* status 'running' (the engine running, the owner having a client), the
\* registry holds a runner for the bot whose cycle task is alive and which
\* is not paused.
C34_RunningBotHasLiveRunner ==
  [][\A b \in Bots :
       (/\ botStatus'[b] = "running"
        /\ \/ ResumeBot(b)
           \/ StartBot(b) /\ bots[b] # NoRunner
           \/ RegisterInsert(b) /\ regs'[b] = 0)
       => /\ bots'[b] # NoRunner
          /\ runner'[bots'[b]].pc \notin {"none", "done"}
          /\ runner'[bots'[b]].is_running
          /\ ~runner'[bots'[b]].is_paused]_vars

\* the Position the BUY of Trade t opened: _execute_buy inserts the Trade and
\* its Position together, so the n-th BUY Trade goes with the n-th Position
PositionOpenedBy(t) == Cardinality({k \in 1..t : trades[k].type = "buy"})

\* C35: when resolve_pending_trades handles a pending Trade, the only
\* Position it modifies or closes is the one the Trade's BUY order opened: a
\* Position opened by another order of the same bot and symbol is left as it
\* is, and for a pending SELL Trade no Position is closed or re-priced.
C35_ResolveTouchesOwnPosition ==
  [][\A cancelled \in BOOLEAN :
       RecResolve(TRUE, cancelled)
       => \A p \in 1..Len(positions) :
            positions'[p] # positions[p]
            => /\ trades[Head(rec.queue).id].type = "buy"
               /\ p = PositionOpenedBy(Head(rec.queue).id)]_vars

\* C36: the stale-order rule of the Reconciler marks a Trade canceled only if
\* the broker order was cancelled: when cancel_order fails the Trade is not
\* marked canceled and its Position is not closed.
C36_CanceledOnlyIfBrokerCancelled ==
  [][\A cancelled \in BOOLEAN :
       (/\ RecResolve(TRUE, cancelled)
        /\ orders[Head(rec.queue).row.order_id].status \in NonTerminal
        /\ trades[Head(rec.queue).id].stale)
       => \/ orders'[Head(rec.queue).row.order_id].status = "canceled"
          \/ /\ trades' = trades
             /\ positions' = positions]_vars

\* C37: Trade.status is monotone: once the status of a Trade is filled,
\* canceled, rejected or expired, no step changes it, whatever the order of
\* _execute_buy's update after the fill polling and a Reconciler pass on the
\* same Trade.
C37_TerminalStatusIsFinal ==
  [][\A t \in 1..Len(trades) :
       trades[t].status \in {"filled"} \cup NonFill
       => /\ Len(trades') >= t
          /\ trades'[t].status = trades[t].status]_vars

\* the sell orders out for position p that the broker can still fill or has
\* filled: the runner's, between its submission and its update, and the
\* close_position request's, between its submission and its update
SellsOutFor(p) ==
  {runner[r].order : r \in {x \in Runners : /\ runner[x].pc \in {"sell_wait", "sell_update"}
                                            /\ runner[x].pos.id = p}}
  \cup (IF cp.pc = "wait" /\ cp.pos.id = p THEN {cp.order} ELSE {})

\* C38: no Position is sold twice: for each Position at most one SELL order
\* the broker can fill is out, whatever the order of the runner's stop-loss
\* and take-profit check, its exit path and close_position requests for the
\* same Position.
C38_NoPositionSoldTwice ==
  \A p \in 1..Len(positions) :
    Cardinality({o \in SellsOutFor(p) : orders[o].status \notin NonFill}) <= 1

\* the Trade of the BUY that opened position p: _execute_buy inserts both rows
\* in one commit
BuyTradeOf(p) ==
  CHOOSE t \in 1..Len(trades) : trades[t].type = "buy" /\ PositionOpenedBy(t) = p

\* C39: every open Position whose BUY is recorded as filled, by _execute_buy
\* or by the Reconciler, carries the stop-loss and take-profit prices computed
\* from its current entry price and the risk configuration of its bot.
C39_LevelsFollowEntryPrice ==
  \A p \in 1..Len(positions) :
    (/\ positions[p].is_open
     /\ trades[BuyTradeOf(p)].status = "filled")
    => /\ positions[p].stop_loss_price
            = calculate_stop_loss(positions[p].entry_price,
                                  ConfigOf(positions[p].bot_id).risk_management)
       /\ positions[p].take_profit_price
            = calculate_take_profit(positions[p].entry_price,
                                    ConfigOf(positions[p].bot_id).risk_management)

\* C40: within one cycle, a symbol whose Position the stop-loss and
\* take-profit check sold is not bought again by the per-symbol pipeline of
\* that cycle.
C40_NoRebuyInTheCycleOfTheSale ==
  [][\A r \in Runners :
       (/\ runner[r].pc = "proc"
        /\ runner'[r].pc = "buy_record")
       => SymbolList[runner[r].symidx] \notin sold_in_cycle[r]]_vars

====
